---- MODULE Spec2Model ----
(***************************************************************************)
(* Jitty: the AST builder (src/src/ast/userfunc.rs) and the code generator *)
(* primitives (src/src/compiler/mod.rs).                                   *)
(*                                                                         *)
(* Four state machines share this module:                                  *)
(*   Spec      - one UserFunction being built (arenas + variable types);   *)
(*   CgSpec    - one Compiler whose public operations are called in any    *)
(*               order, the nodes of a built UserFunction compiled into    *)
(*               it, and the emitted blocks being executed (CgFairSpec:    *)
(*               the same with the started call running on);               *)
(*   ArithSpec - the same Compiler emitting the division check and the     *)
(*               checked arithmetic, executed on every pair of operands;   *)
(*   CtxSpec   - threads asking for their code generation context, and     *)
(*               exiting.                                                  *)
(***************************************************************************)
EXTENDS Integers, Sequences, FiniteSets, TLC

VARIABLES
    \* ---- UserFunction (userfunc.rs:20-36) ----
    is_transition_function, \* bool
    return_type,            \* Type
    statements,             \* Vec<Box<dyn Statement>>
    expressions,            \* Vec<Expr>
    error_points,           \* Vec<LangError>
    variables,              \* HashMap<String, Type>
    call,                   \* the last operation called on the UserFunction, with its inputs
    ncalls,                 \* how many operations have been called from outside
    result,                 \* what that operation returned
    \* ---- Compiler (compiler/mod.rs:29-35) ----
    blocks,                 \* the basic blocks of fn_value, each a sequence of instructions
    cursor,                 \* builder's insert block (index into blocks)
    module,                 \* the functions declared in the LLVM module (name -> type)
    cglog,                  \* the Compiler operations called so far, innermost first
    cgres,                  \* what the last operation called from outside returned
    \* ---- one execution of the emitted function ----
    run,
    \* ---- the code generation contexts (compiler/mod.rs:19-24) ----
    CTX,                    \* the lazy static: whether it is initialized, and its per-thread slots
    contexts,               \* how many contexts Context::create has made
    threads                 \* each thread's position in get_ctx and the contexts it was given

ufvars == <<is_transition_function, return_type, statements, expressions,
            error_points, variables, call, ncalls, result>>
ufdata == <<is_transition_function, return_type, statements, expressions,
            error_points, variables, call, result>>
cgvars == <<blocks, cursor, module, cglog, cgres, run, CTX, contexts, threads>>
vars == <<is_transition_function, return_type, statements, expressions,
          error_points, variables, call, ncalls, result,
          blocks, cursor, module, cglog, cgres, run, CTX, contexts, threads>>

-----------------------------------------------------------------------------
(* Bounds of the model *)

\* How many operations are called on one UserFunction.
MaxCalls == 2

-----------------------------------------------------------------------------
(* LangResult<T> *)

Ok(v) == [tag |-> "Ok", val |-> v]
Err(msg, span) == [tag |-> "Err", err |-> msg, span |-> span]
\* todo!() aborts the build by panicking.
Panic(msg) == [tag |-> "Panic", err |-> msg]
IsOk(r) == r.tag = "Ok"

Types == {"Int", "CellState", "Vector"}
Names == {"x", "y"}

-----------------------------------------------------------------------------
(* UserFunction as a value, so that the recursive builders can thread it *)

new_helper_function(ty) ==
    [is_transition_function |-> FALSE,
     return_type |-> ty,
     statements |-> <<>>,
     expressions |-> <<>>,
     error_points |-> <<>>,
     variables |-> <<>>]

new_transition_function ==
    [new_helper_function("CellState") EXCEPT !.is_transition_function = TRUE]

Self ==
    [is_transition_function |-> is_transition_function,
     return_type |-> return_type,
     statements |-> statements,
     expressions |-> expressions,
     error_points |-> error_points,
     variables |-> variables]

\* try_get_var(&self, span, var_name) -> LangResult<Type>
try_get_var(self, span, var_name) ==
    IF var_name \in DOMAIN self.variables
    THEN Ok(self.variables[var_name])
    ELSE Err("UseOfUninitializedVariable", span)

\* A get_or_create_var whose insert overwrites an existing entry.
get_or_create_var_overwrite(self, var_name, new_ty) ==
    [self |-> [self EXCEPT !.variables =
                  [n \in DOMAIN self.variables \cup {var_name} |->
                      IF n = var_name THEN new_ty ELSE self.variables[n]]],
     ret |-> new_ty]

\* get_or_create_var(&mut self, var_name, new_ty) -> Type
get_or_create_var(self, var_name, new_ty) ==
    IF var_name \in DOMAIN self.variables
    THEN [self |-> self, ret |-> self.variables[var_name]]
    ELSE [self |-> [self EXCEPT !.variables =
                       [n \in DOMAIN self.variables \cup {var_name} |->
                           IF n = var_name THEN new_ty ELSE self.variables[n]]],
          ret |-> new_ty]

\* add_statement(&mut self, statement) -> StatementRef
add_statement(self, statement) ==
    [self |-> [self EXCEPT !.statements = Append(@, statement)],
     ret |-> Len(self.statements)]

\* An add_expr that puts the new node in front of the arena.
add_expr_front(self, expr) ==
    [self |-> [self EXCEPT !.expressions = <<expr>> \o @],
     ret |-> Len(self.expressions)]

\* add_expr(&mut self, expr) -> ExprRef
add_expr(self, expr) ==
    [self |-> [self EXCEPT !.expressions = Append(@, expr)],
     ret |-> Len(self.expressions)]

\* add_error_point(&mut self, error) -> ErrorPointRef
add_error_point(self, error) ==
    [self |-> [self EXCEPT !.error_points = Append(@, error)],
     ret |-> [idx |-> Len(self.error_points), error |-> error]]

\* impl Index<ExprRef> for UserFunction (0-based reference into the arena)
ExprAt(self, expr_ref) == self.expressions[expr_ref + 1]
\* impl Index<StatementRef> for UserFunction
StatementAt(self, statement_ref) == self.statements[statement_ref + 1]
\* impl Index<ErrorPointRef> for UserFunction
ErrorPointAt(self, error_point_ref) == self.error_points[error_point_ref.idx + 1]

-----------------------------------------------------------------------------
(* The syntax tree handed over by the parser (parser::Expr, parser::Statement). *)
(* Every node is Spanned: it carries the span of its source text.               *)

PInt(span, i) == [k |-> "Int", span |-> span, i |-> i]
PIdent(span, name) == [k |-> "Ident", span |-> span, name |-> name]
PGroup(span, start_token, inner) ==
    [k |-> "Group", span |-> span, start_token |-> start_token, inner |-> inner]
PList(span) == [k |-> "List", span |-> span]
PUnaryOp(span, op, operand) ==
    [k |-> "UnaryOp", span |-> span, op |-> op, operand |-> operand]
PBinaryOp(span, op, lhs, rhs) ==
    [k |-> "BinaryOp", span |-> span, op |-> op, lhs |-> lhs, rhs |-> rhs]
PCmp(span, exprs, cmps) == [k |-> "Cmp", span |-> span, exprs |-> exprs, cmps |-> cmps]

PSetVar(span, var_expr, assign_op, value_expr) ==
    [k |-> "SetVar", span |-> span, var_expr |-> var_expr,
     assign_op |-> assign_op, value_expr |-> value_expr]
PIf(span, cond_expr, if_true, if_false) ==
    [k |-> "If", span |-> span, cond_expr |-> cond_expr,
     if_true |-> if_true, if_false |-> if_false]
PBecome(span, ret_expr) == [k |-> "Become", span |-> span, ret_expr |-> ret_expr]
PReturn(span, ret_expr) == [k |-> "Return", span |-> span, ret_expr |-> ret_expr]

\* The binary operator tokens build_expression_ast resolves to BinaryIntOp.
MathOps ==
    {"Plus", "Minus", "Asterisk", "Slash", "Percent", "DoubleAsterisk",
     "DoubleLessThan", "DoubleGreaterThan", "TripleGreaterThan", "Ampersand", "Pipe"}

\* AssignToken::op(): the operator of a compound assignment, None for a plain `=`.
AssignOp(assign_op) ==
    CASE assign_op = "Assign" -> <<>>
      [] assign_op = "PlusAssign" -> <<"Plus">>
      [] assign_op = "MinusAssign" -> <<"Minus">>
      [] assign_op = "AsteriskAssign" -> <<"Asterisk">>
      [] assign_op = "SlashAssign" -> <<"Slash">>
      [] assign_op = "PercentAssign" -> <<"Percent">>

-----------------------------------------------------------------------------
(* The built-in capabilities the builder calls into (the function registry, *)
(* Expr and the statement nodes).  Each validates its own arguments.        *)

Function(name, i, s) == [name |-> name, i |-> i, s |-> s]

\* functions::literals::Int(i)
literals_Int(i) == Function("Int", i, <<>>)

\* functions::misc::GetVar::try_new(userfunc, span, var_name):
\* surfaces UseOfUninitializedVariable through try_get_var.
GetVar_try_new(self, span, var_name) ==
    LET ty == try_get_var(self, span, var_name)
    IN  IF IsOk(ty)
        THEN [self |-> self, res |-> Ok(Function("GetVar", 0, <<var_name, ty.val>>))]
        ELSE [self |-> self, res |-> ty]

\* functions::math::NegInt::try_new(userfunc, span): registers its overflow error point.
NegInt_try_new(self, span) ==
    LET a == add_error_point(self, [msg |-> "IntegerOverflow", span |-> span])
    IN  [self |-> a.self, res |-> Ok(Function("NegInt", a.ret.idx, <<>>))]

\* functions::convert::IntToCellState::try_new(userfunc, span)
IntToCellState_try_new(self, span) ==
    LET a == add_error_point(self, [msg |-> "CellStateOutOfRange", span |-> span])
    IN  [self |-> a.self, res |-> Ok(Function("IntToCellState", a.ret.idx, <<>>))]

\* functions::math::BinaryIntOp::try_new(userfunc, span, op): registers the
\* run-time errors the operator can raise (overflow; for division also
\* division by zero).
BinaryIntOp_try_new(self, span, op) ==
    IF op \in {"Plus", "Minus", "Asterisk", "DoubleAsterisk"}
    THEN LET a == add_error_point(self, [msg |-> "IntegerOverflow", span |-> span])
         IN  [self |-> a.self, res |-> Ok(Function("BinaryIntOp", a.ret.idx, <<op>>))]
    ELSE IF op \in {"Slash", "Percent"}
    THEN LET a == add_error_point(self, [msg |-> "IntegerOverflow", span |-> span])
             b == add_error_point(a.self, [msg |-> "DivideByZero", span |-> span])
         IN  [self |-> b.self, res |-> Ok(Function("BinaryIntOp", a.ret.idx, <<op>>))]
    ELSE [self |-> self, res |-> Ok(Function("BinaryIntOp", 0, <<op>>))]

ArgTypes(self, args) == [i \in 1..Len(args) |-> self.expressions[args[i] + 1].ty]

\* functions::cmp::Cmp::try_new(userfunc, &args, cmps): the operands of a
\* chained comparison must all have one comparable type.
Cmp_try_new(self, span, args, cmps) ==
    LET tys == ArgTypes(self, args)
    IN  IF \A i \in 1..Len(tys) : tys[i] = tys[1] /\ tys[i] \in {"Int", "CellState"}
        THEN [self |-> self, res |-> Ok(Function("Cmp", 0, cmps))]
        ELSE [self |-> self, res |-> Err("CmpError", span)]

\* Expr::try_new(span, userfunc, function, args): the capability checks the
\* argument types and gives the node's result type.
Expr_try_new(span, self, function, args) ==
    LET tys == ArgTypes(self, args)
        node(ty) == Ok([span |-> span, function |-> function, args |-> args, ty |-> ty])
    IN  CASE function.name = "Int" -> node("Int")
          [] function.name = "GetVar" -> node(function.s[2])
          [] function.name = "NegInt" ->
                IF tys = <<"Int">> THEN node("Int") ELSE Err("TypeError", span)
          [] function.name = "IntToCellState" ->
                IF tys = <<"Int">> THEN node("CellState") ELSE Err("TypeError", span)
          [] function.name = "BinaryIntOp" ->
                IF tys = <<"Int", "Int">> THEN node("Int") ELSE Err("TypeError", span)
          [] OTHER -> node("Int")

\* statements::SetVar::try_new(span, userfunc, var_name, value_expr): binds the
\* variable through get_or_create_var; a value of another type than the
\* variable's is not rejected.
SetVar_try_new(span, self, var_name, value_expr) ==
    LET g == get_or_create_var(self, var_name, self.expressions[value_expr + 1].ty)
    IN  [self |-> g.self,
         res |-> Ok([kind |-> "SetVar", span |-> span, var_name |-> var_name,
                     var_type |-> g.ret, value_expr |-> value_expr])]

\* statements::If::try_new(span, userfunc, cond_expr, if_true, if_false)
If_try_new(span, self, cond_expr, if_true, if_false) ==
    [self |-> self,
     res |-> Ok([kind |-> "If", span |-> span, cond_expr |-> cond_expr,
                 if_true |-> if_true, if_false |-> if_false])]

\* statements::Return::try_new(span, userfunc, ret_expr)
Return_try_new(span, self, ret_expr) ==
    [self |-> self,
     res |-> Ok([kind |-> "Return", span |-> span, ret_expr |-> ret_expr])]

-----------------------------------------------------------------------------
(* build_expression_ast (userfunc.rs:168-258) *)

\* Lines 256-257: Expr::try_new(span, self, function, args)?, then add_expr.
FinishExpr(self, span, function, args) ==
    LET e == Expr_try_new(span, self, function, args)
    IN  IF IsOk(e)
        THEN LET a == add_expr(self, e.val) IN [self |-> a.self, res |-> Ok(a.ret)]
        ELSE [self |-> self, res |-> e]

\* Lines 208-209, 213-214, 236: `function = Box::new(F::try_new(self, ...)?)`
\* after the operands are built, then lines 256-257.
WithFunction(f, span, args) ==
    IF IsOk(f.res) THEN FinishExpr(f.self, span, f.res.val, args) ELSE f

RECURSIVE build_expression_ast(_, _)
RECURSIVE BuildCmpArgs(_, _, _, _)

\* Lines 246-251: exprs.iter().map(build_expression_ast).collect::<LangResult<Vec<_>>>()
\* stops at the first operand that fails.
BuildCmpArgs(self, exprs, i, acc) ==
    IF i > Len(exprs)
    THEN [self |-> self, res |-> Ok(acc)]
    ELSE LET b == build_expression_ast(self, exprs[i])
         IN  IF IsOk(b.res)
             THEN BuildCmpArgs(b.self, exprs, i + 1, Append(acc, b.res.val))
             ELSE b

\* The binary-operator arm with its operands built right before left.
BinaryOperandsRightFirst(self, pe) ==
    LET r == build_expression_ast(self, pe.rhs)
    IN  IF ~IsOk(r.res) THEN r
        ELSE LET l == build_expression_ast(r.self, pe.lhs)
             IN  IF ~IsOk(l.res) THEN l
                 ELSE [self |-> l.self, res |-> Ok(<<l.res.val, r.res.val>>)]

\* Lines 232-235: Args::from(vec![build(lhs)?, build(rhs)?])
BinaryOperands(self, pe) ==
    LET l == build_expression_ast(self, pe.lhs)
    IN  IF ~IsOk(l.res) THEN l
        ELSE LET r == build_expression_ast(l.self, pe.rhs)
             IN  IF ~IsOk(r.res) THEN r
                 ELSE [self |-> r.self, res |-> Ok(<<l.res.val, r.res.val>>)]

build_expression_ast(self, pe) ==
    LET span == pe.span
    IN  CASE pe.k = "Int" ->
                FinishExpr(self, span, literals_Int(pe.i), <<>>)
          [] pe.k = "Ident" ->
                WithFunction(GetVar_try_new(self, span, pe.name), span, <<>>)
          [] pe.k = "Group" ->
                CASE pe.start_token = "LParen" -> build_expression_ast(self, pe.inner)
                  [] pe.start_token = "LBracket" ->
                        [self |-> self, res |-> Panic("not yet implemented: Construct vector")]
                  [] OTHER -> [self |-> self, res |-> Err("InternalError: Invalid group", span)]
          [] pe.k = "List" ->
                [self |-> self, res |-> Err("ExpectedGot expression, comma-separated list", span)]
          [] pe.k = "UnaryOp" ->
                IF pe.op \in {"Minus", "Tag"}
                THEN LET o == build_expression_ast(self, pe.operand)
                     IN  IF ~IsOk(o.res) THEN o
                         ELSE IF pe.op = "Minus"
                              THEN WithFunction(NegInt_try_new(o.self, span), span, <<o.res.val>>)
                              ELSE WithFunction(IntToCellState_try_new(o.self, span), span,
                                                <<o.res.val>>)
                ELSE [self |-> self,
                      res |-> Err("InternalError: Invalid unary operator", span)]
          [] pe.k = "BinaryOp" ->
                CASE pe.op \in MathOps ->
                        LET a == BinaryOperands(self, pe)
                        IN  IF ~IsOk(a.res) THEN a
                            ELSE WithFunction(BinaryIntOp_try_new(a.self, span, pe.op),
                                              span, a.res.val)
                  [] pe.op = "Dot" ->
                        [self |-> self, res |-> Panic("not yet implemented: Method call")]
                  [] pe.op = "DotDot" ->
                        [self |-> self, res |-> Panic("not yet implemented: Range")]
                  [] OTHER ->
                        [self |-> self,
                         res |-> Err("InternalError: Invalid binary operator", span)]
          [] pe.k = "Cmp" ->
                LET a == BuildCmpArgs(self, pe.exprs, 1, <<>>)
                IN  IF ~IsOk(a.res) THEN a
                    ELSE WithFunction(Cmp_try_new(a.self, span, a.res.val, pe.cmps),
                                      span, a.res.val)

-----------------------------------------------------------------------------
(* build_statement_block_ast (userfunc.rs:88-166) *)

\* A desugaring of `x op= e` that puts the read of x on the right of op.
DesugarSwapped(ps) ==
    PBinaryOp(ps.span, AssignOp(ps.assign_op)[1],
              ps.value_expr, PIdent(ps.var_expr.span, ps.var_expr.name))

\* Lines 106-116: the parse tree built for `x op= e`: a BinaryOp spanning the
\* statement, its lhs a new Ident(x) with the target's span, its rhs a clone of e.
Desugar(ps) ==
    PBinaryOp(ps.span, AssignOp(ps.assign_op)[1],
              PIdent(ps.var_expr.span, ps.var_expr.name), ps.value_expr)

\* An exit-statement check that accepts either keyword in either kind of function.
ExitKeywordAny(self, keyword) == TRUE

\* Lines 144 and 154: `become` is legal in a transition function only,
\* `return` in a helper function only.
ExitKeywordLegal(self, keyword) ==
    IF keyword = "Become" THEN self.is_transition_function
    ELSE ~self.is_transition_function

\* Lines 148 and 155: the error of the wrong exit keyword.
ExitKeywordError(keyword) ==
    IF keyword = "Become" THEN "BecomeInHelperFunction" ELSE "ReturnInTransitionFunction"

RECURSIVE build_statement_block_ast(_, _)
RECURSIVE BuildStatements(_, _, _, _)

\* Lines 105-127: the value expression is built (`?`), then the SetVar node.
SetVarValueBuilt(span, var_name, v) ==
    IF ~IsOk(v.res) THEN v ELSE SetVar_try_new(span, v.self, var_name, v.res.val)

\* Lines 134-140: If::try_new on the built condition and the two built blocks.
IfFalseBuilt(span, c, t, f) ==
    IF ~IsOk(f.res) THEN f
    ELSE If_try_new(span, f.self, c.res.val, t.res.val, f.res.val)

\* Lines 137-138: the if_true block is built (`?`), then the if_false block.
IfTrueBuilt(ps, c, t) ==
    IF ~IsOk(t.res) THEN t
    ELSE IfFalseBuilt(ps.span, c, t, build_statement_block_ast(t.self, ps.if_false))

\* Lines 136-137: the condition is built (`?`), then the if_true block.
IfCondBuilt(ps, c) ==
    IF ~IsOk(c.res) THEN c
    ELSE IfTrueBuilt(ps, c, build_statement_block_ast(c.self, ps.if_true))

\* Lines 145-146 and 157-158: the expression is built (`?`), then the Return node.
ReturnExprBuilt(span, r) ==
    IF ~IsOk(r.res) THEN r ELSE Return_try_new(span, r.self, r.res.val)

\* Lines 96-161: the match that builds one statement node (not yet added).
BuildStatement(self, ps) ==
    CASE ps.k = "SetVar" ->
            IF ps.var_expr.k = "Ident"
            THEN SetVarValueBuilt(ps.span, ps.var_expr.name,
                                  build_expression_ast(self, IF AssignOp(ps.assign_op) # <<>>
                                                             THEN Desugar(ps)
                                                             ELSE ps.value_expr))
            ELSE [self |-> self, res |-> Err("Expected variable name", ps.span)]
      [] ps.k = "If" ->
            IfCondBuilt(ps, build_expression_ast(self, ps.cond_expr))
      [] ps.k \in {"Become", "Return"} ->
            IF ExitKeywordLegal(self, ps.k)
            THEN ReturnExprBuilt(ps.span, build_expression_ast(self, ps.ret_expr))
            ELSE [self |-> self, res |-> Err(ExitKeywordError(ps.k), ps.span)]

\* Line 163: the built node is added to the arena.
AddBuilt(n) == add_statement(n.self, n.res.val)

\* A loop that skips a statement that failed to build and goes on.
StatementBuiltSkipping(parser_statements, i, block, n) ==
    IF ~IsOk(n.res) THEN BuildStatements(n.self, parser_statements, i + 1, block)
    ELSE BuildStatements(AddBuilt(n).self, parser_statements, i + 1,
                         Append(block, AddBuilt(n).ret))

\* Lines 96-164: a statement that failed to build ends the loop with its
\* error; a built one is added and the loop goes on with the next.
StatementBuilt(parser_statements, i, block, n) ==
    IF ~IsOk(n.res) THEN n
    ELSE BuildStatements(AddBuilt(n).self, parser_statements, i + 1,
                         Append(block, AddBuilt(n).ret))

\* Lines 92-165: the loop over the block; each built node is added to the
\* arena and its reference pushed on the block.
BuildStatements(self, parser_statements, i, block) ==
    IF i > Len(parser_statements)
    THEN [self |-> self, res |-> Ok(block)]
    ELSE StatementBuilt(parser_statements, i, block,
                        BuildStatement(self, parser_statements[i]))

build_statement_block_ast(self, parser_statements) ==
    BuildStatements(self, parser_statements, 1, <<>>)

-----------------------------------------------------------------------------
(* The syntax trees the builder is driven with *)

ValueExprs ==
    {PInt(2, 1),
     PIdent(2, "x"),
     PUnaryOp(2, "Tag", PInt(2, 1))}

ExprSamples ==
    ValueExprs \cup
    {PList(2),
     PGroup(2, "LParen", PIdent(2, "y")),
     PGroup(2, "LBracket", PInt(2, 1)),
     PGroup(2, "LBrace", PInt(2, 1)),
     PUnaryOp(2, "Minus", PIdent(2, "x")),
     PUnaryOp(2, "Plus", PInt(2, 1)),
     PBinaryOp(2, "Slash", PInt(2, 1), PIdent(2, "y")),
     PBinaryOp(2, "Minus", PInt(2, 1), PList(2)),
     PBinaryOp(2, "Dot", PIdent(2, "x"), PIdent(2, "y")),
     PBinaryOp(2, "Eq", PIdent(2, "x"), PIdent(2, "y")),
     PCmp(2, <<PIdent(2, "x"), PInt(2, 1), PIdent(2, "y")>>, <<"Lt", "LtEq">>)}

\* The blocks build_statement_block_ast is driven with: one statement of each
\* kind, pairs of statements, and blocks in which a statement fails to build
\* with statements before it, inside it and after it (every node of those
\* has a span of its own).
BlockSamples ==
    LET AssignTokens == {"Assign", "PlusAssign", "SlashAssign"}

        AssignStatements ==
            {PSetVar(1, PIdent(2, n), a, e) : n \in Names, a \in AssignTokens, e \in ValueExprs}
            \cup {PSetVar(1, PList(2), "Assign", PInt(2, 1)),
                  PSetVar(1, PIdent(2, "x"), "PlusAssign", PList(2))}

        ExitStatements ==
            {PBecome(1, e) : e \in ValueExprs \cup {PList(2)}}
            \cup {PReturn(1, e) : e \in ValueExprs \cup {PList(2)}}

        IfStatements ==
            {PIf(1, PIdent(2, "x"), <<PSetVar(1, PIdent(2, "y"), "Assign", PInt(2, 1))>>, <<>>),
             PIf(1, PIdent(2, "x"), <<>>, <<PSetVar(1, PIdent(2, "x"), "PlusAssign", PInt(2, 1))>>),
             PIf(1, PInt(2, 1), <<PBecome(1, PUnaryOp(2, "Tag", PInt(2, 1)))>>,
                                <<PReturn(1, PInt(2, 1))>>),
             PIf(1, PInt(2, 1), <<PSetVar(1, PIdent(2, "y"), "Assign", PInt(2, 1))>>,
                                <<PSetVar(1, PIdent(2, "y"), "Assign", PList(2))>>),
             PIf(1, PList(2), <<>>, <<>>)}

        AbortSamples ==
            {<<PIf(10, PInt(20, 1),
                   <<PSetVar(11, PIdent(21, "x"), "Assign", PInt(22, 1)),
                     PReturn(12, PInt(23, 1))>>,
                   <<PSetVar(13, PIdent(24, "y"), "Assign", PInt(25, 1))>>),
               PSetVar(14, PIdent(26, "y"), "Assign", PInt(27, 2))>>,
             <<PSetVar(10, PIdent(20, "x"), "Assign", PInt(21, 1)),
               PSetVar(11, PIdent(22, "y"), "Assign",
                       PBinaryOp(23, "Plus", PInt(24, 1), PList(25))),
               PSetVar(12, PIdent(26, "y"), "Assign", PInt(27, 2))>>,
             <<PSetVar(10, PIdent(20, "x"), "Assign", PGroup(21, "LBracket", PInt(22, 1))),
               PSetVar(11, PIdent(23, "y"), "Assign", PInt(24, 1))>>}
    IN  AbortSamples \cup
        {<<>>}
        \cup {<<s>> : s \in AssignStatements \cup ExitStatements \cup IfStatements}
        \cup {<<s1, s2>> : s1 \in {PSetVar(1, PIdent(2, "x"), "Assign", PInt(2, 1)),
                                   PBecome(1, PInt(2, 1))},
                           s2 \in {PSetVar(1, PIdent(2, "x"), "PlusAssign", PInt(2, 1)),
                                   PReturn(1, PList(2))}}

ErrorSamples ==
    {[msg |-> "IntegerOverflow", span |-> 1], [msg |-> "DivideByZero", span |-> 2]}

-----------------------------------------------------------------------------
(* The code generation contexts (compiler/mod.rs:19-24).                   *)
(*                                                                         *)
(* get_ctx dereferences the lazy static CTX (initialized once, by the      *)
(* first thread that gets there) and calls ThreadLocal::get_or on it with  *)
(* Context::create: the calling thread's slot is looked up, and when it is *)
(* empty a context is created and put there.  A thread's slot is the one   *)
(* of its thread id, which thread_local hands out on the thread's first    *)
(* access and takes back when the thread exits: the smallest id that no    *)
(* live thread holds.  The value in a slot stays when its thread exits.    *)
(* Context 0 and id 0 stand for "none".                                    *)

\* How many threads call get_ctx, and how often each.
NThreads == 3
MaxGetCtx == 2

Threads == 1..NThreads

\* The thread a Compiler is made and used on.
CompilerThread == 1

\* Before any thread has called get_ctx: the lazy static is not initialized,
\* no context exists, no thread has an id.
CtxStart ==
    [CTX |-> [init |-> FALSE, slots |-> [i \in Threads |-> 0]],
     contexts |-> 0,
     threads |-> [t \in Threads |->
                     [pc |-> "idle", id |-> 0, created |-> 0, got |-> {}, calls |-> 0]]]

\* The contexts' state as a value, so that the Compiler's operations can thread it.
CtxState == [CTX |-> CTX, contexts |-> contexts, threads |-> threads]

SetCtx(s) ==
    /\ CTX' = s.CTX
    /\ contexts' = s.contexts
    /\ threads' = s.threads

\* What get_ctx gives back to thread t.
GetCtxReturn(s, t, context) ==
    [s EXCEPT !.threads[t].pc = "idle", !.threads[t].got = @ \cup {context}]

\* Line 23, `CTX`: the lazy static is initialized by the first dereference.
Deref(s, t) == [s EXCEPT !.CTX.init = TRUE, !.threads[t].pc = "get_or"]

\* The ids no live thread holds.
FreeIds(s) ==
    Threads \ {s.threads[u].id : u \in {v \in Threads : s.threads[v].pc # "exited"}}

\* Line 20: CTX is a ThreadLocal<Context>: the slot of thread t is the one of
\* its thread id; a thread without an id is given the smallest free one.
Slot(s, t) ==
    IF s.threads[t].id # 0 THEN s.threads[t].id
    ELSE CHOOSE i \in FreeIds(s) : \A j \in FreeIds(s) : i <= j

\* Line 23, `.get_or(..)`: the value in the calling thread's slot when there
\* is one, otherwise the closure is to be called.
LookupSlot(s, t, id) ==
    IF s.CTX.slots[id] # 0
    THEN GetCtxReturn([s EXCEPT !.threads[t].id = id], t, s.CTX.slots[id])
    ELSE [s EXCEPT !.threads[t].id = id, !.threads[t].pc = "create"]
Lookup(s, t) == LookupSlot(s, t, Slot(s, t))

\* Line 23, `Context::create`: a new context.
Create(s, t) ==
    [s EXCEPT !.contexts = @ + 1,
              !.threads[t].pc = "insert",
              !.threads[t].created = s.contexts + 1]

\* Line 23: get_or stores the new context in the slot and returns it.
Insert(s, t) ==
    GetCtxReturn([s EXCEPT !.CTX.slots[s.threads[t].id] = s.threads[t].created],
                 t, s.threads[t].created)

\* get_ctx() called by thread t and run to its end.
GetOr(l, t) == IF l.threads[t].pc = "idle" THEN l ELSE Insert(Create(l, t), t)
get_ctx(s, t) == GetOr(Lookup(Deref(s, t), t), t)

-----------------------------------------------------------------------------
(* The Compiler right after construction on CompilerThread: the module and *)
(* the builder made in get_ctx(), a function with its entry block, the     *)
(* builder positioned there, nothing executing.                            *)

CgNew ==
    /\ blocks = << <<>> >>
    /\ cursor = 1
    /\ module = <<>>
    /\ cglog = <<>>
    /\ cgres = [tag |-> "None"]
    /\ run = [status |-> "idle"]
    /\ CTX = get_ctx(CtxStart, CompilerThread).CTX
    /\ contexts = get_ctx(CtxStart, CompilerThread).contexts
    /\ threads = get_ctx(CtxStart, CompilerThread).threads

\* Before any Compiler is constructed.
CgNone ==
    /\ blocks = <<>>
    /\ cursor = 0
    /\ module = <<>>
    /\ cglog = <<>>
    /\ cgres = [tag |-> "None"]
    /\ run = [status |-> "idle"]
    /\ CTX = CtxStart.CTX
    /\ contexts = CtxStart.contexts
    /\ threads = CtxStart.threads

-----------------------------------------------------------------------------
(* Spec: the operations on one UserFunction *)

SetSelf(s) ==
    /\ is_transition_function' = s.is_transition_function
    /\ return_type' = s.return_type
    /\ statements' = s.statements
    /\ expressions' = s.expressions
    /\ error_points' = s.error_points
    /\ variables' = s.variables

\* A panic unwinds out of the builder: nothing is called on the function afterwards.
Alive == result.tag # "Panic" /\ ncalls < MaxCalls

Init ==
    /\ \E s \in {new_transition_function}
                 \cup {new_helper_function(t) : t \in {"Int", "CellState"}} :
          /\ is_transition_function = s.is_transition_function
          /\ return_type = s.return_type
          /\ statements = s.statements
          /\ expressions = s.expressions
          /\ error_points = s.error_points
          /\ variables = s.variables
    /\ call = [op |-> "new"]
    /\ ncalls = 0
    /\ result = [tag |-> "None"]
    /\ CgNew

TryGetVar ==
    \E n \in Names :
        /\ Alive
        /\ ncalls' = ncalls + 1
        /\ call' = [op |-> "try_get_var", var_name |-> n]
        /\ result' = try_get_var(Self, 0, n)
        /\ UNCHANGED <<is_transition_function, return_type, statements, expressions,
                       error_points, variables>>
        /\ UNCHANGED cgvars

GetOrCreateVar ==
    \E n \in Names, ty \in Types :
        LET g == get_or_create_var(Self, n, ty)
        IN  /\ Alive
            /\ ncalls' = ncalls + 1
            /\ SetSelf(g.self)
            /\ call' = [op |-> "get_or_create_var", var_name |-> n, new_ty |-> ty]
            /\ result' = [tag |-> "Type", val |-> g.ret]
            /\ UNCHANGED cgvars

BuildStatementBlockAst ==
    \E b \in BlockSamples :
        LET r == build_statement_block_ast(Self, b)
        IN  /\ Alive
            /\ ncalls' = ncalls + 1
            /\ SetSelf(r.self)
            /\ call' = [op |-> "build_statement_block_ast", parser_statements |-> b]
            /\ result' = r.res
            /\ UNCHANGED cgvars

BuildExpressionAst ==
    \E e \in ExprSamples :
        LET r == build_expression_ast(Self, e)
        IN  /\ Alive
            /\ ncalls' = ncalls + 1
            /\ SetSelf(r.self)
            /\ call' = [op |-> "build_expression_ast", parser_expr |-> e]
            /\ result' = r.res
            /\ UNCHANGED cgvars

AddErrorPoint ==
    \E e \in ErrorSamples :
        LET a == add_error_point(Self, e)
        IN  /\ Alive
            /\ ncalls' = ncalls + 1
            /\ SetSelf(a.self)
            /\ call' = [op |-> "add_error_point", error |-> e]
            /\ result' = [tag |-> "ErrorPointRef", val |-> a.ret]
            /\ UNCHANGED cgvars

Next ==
    \/ TryGetVar
    \/ GetOrCreateVar
    \/ BuildStatementBlockAst
    \/ BuildExpressionAst
    \/ AddErrorPoint

Spec == Init /\ [][Next]_vars

-----------------------------------------------------------------------------
(* Claims about the UserFunction (checked under Spec) *)

\* The last step was a call of the named operation.
Called(op) == call'.op = op /\ ncalls' = ncalls + 1

\* C1: a variable's type is fixed by the first get_or_create_var: the first
\* call registers and returns the proposed type, every later call returns the
\* registered type whatever type is proposed and leaves the environment as it
\* is, and no operation at all (try_get_var and the builders included) changes
\* the type of a name once it is set; try_get_var reports that same type.
C1_TypeFixedAtFirstUse ==
    [][ /\ \A n \in DOMAIN variables :
              n \in DOMAIN variables' /\ variables'[n] = variables[n]
        /\ Called("get_or_create_var") =>
              LET n == call'.var_name
              IN  IF n \in DOMAIN variables
                  THEN result'.val = variables[n] /\ variables' = variables
                  ELSE /\ result'.val = call'.new_ty
                       /\ variables'[n] = call'.new_ty
                       /\ DOMAIN variables' = DOMAIN variables \cup {n}
        /\ Called("try_get_var") =>
              /\ variables' = variables
              /\ IF call'.var_name \in DOMAIN variables
                 THEN result' = Ok(variables[call'.var_name])
                 ELSE result'.tag = "Err" /\ result'.err = "UseOfUninitializedVariable"
      ]_vars

\* C1 witness: a later get_or_create_var proposed another type and got the
\* registered one back.
C1_Witness ==
    /\ call.op = "get_or_create_var"
    /\ call.new_ty # result.val
    /\ variables[call.var_name] = result.val

RECURSIVE ContainsExit(_, _)
\* Whether a block holds, at any depth, an exit statement of the given keyword.
ContainsExit(b, keyword) ==
    \E i \in 1..Len(b) :
        \/ b[i].k = keyword
        \/ b[i].k = "If" /\ (ContainsExit(b[i].if_true, keyword)
                              \/ ContainsExit(b[i].if_false, keyword))

IsExitBlock(b) == Len(b) = 1 /\ b[1].k \in {"Become", "Return"}

\* C2 as stated: the wrong exit keyword fails with its error, and the right
\* keyword always builds.
C2_ConverseAlwaysSucceeds ==
    (call.op = "build_statement_block_ast" /\ IsExitBlock(call.parser_statements)) =>
        LET s == call.parser_statements[1]
        IN  IF (s.k = "Become") = is_transition_function
            THEN result.tag = "Ok"
            ELSE result = Err(ExitKeywordError(s.k), s.span)

\* C2 amended: a block holding a `become` never builds against a helper
\* function, nor one holding a `return` against a transition function, and a
\* lone wrong exit statement fails with BecomeInHelperFunction /
\* ReturnInTransitionFunction; the right keyword is never rejected for its
\* kind: it builds exactly when its returned expression builds, and fails with
\* that expression's error otherwise.
C2_ExitKeywordMatchesKind ==
    [][ Called("build_statement_block_ast") =>
          LET b == call'.parser_statements
          IN  /\ (ContainsExit(b, "Become") /\ ~is_transition_function)
                    => result'.tag # "Ok"
              /\ (ContainsExit(b, "Return") /\ is_transition_function)
                    => result'.tag # "Ok"
              /\ IsExitBlock(b) =>
                    IF (b[1].k = "Become") = is_transition_function
                    THEN LET e == build_expression_ast(Self, b[1].ret_expr)
                         IN  IF IsOk(e.res)
                             THEN result'.tag = "Ok" /\ Len(result'.val) = 1
                             ELSE result' = e.res
                                  /\ result'.err \notin {"BecomeInHelperFunction",
                                                         "ReturnInTransitionFunction"}
                    ELSE result' = Err(ExitKeywordError(b[1].k), b[1].span)
      ]_vars

\* C2 witness: a `become` was built against a helper function and failed.
C2_Witness ==
    /\ call.op = "build_statement_block_ast"
    /\ IsExitBlock(call.parser_statements)
    /\ call.parser_statements[1].k = "Become"
    /\ ~is_transition_function
    /\ result = Err("BecomeInHelperFunction", call.parser_statements[1].span)

-----------------------------------------------------------------------------
(* C8: compound assignment *)

RECURSIVE WrittenOut(_)
\* The block with every `x op= e` written out as `x = x op e`.
WrittenOut(b) ==
    [i \in 1..Len(b) |->
        CASE b[i].k = "SetVar" /\ b[i].var_expr.k = "Ident" /\ b[i].assign_op # "Assign" ->
                PSetVar(b[i].span, b[i].var_expr, "Assign",
                        PBinaryOp(b[i].value_expr.span, AssignOp(b[i].assign_op)[1],
                                  PIdent(b[i].var_expr.span, b[i].var_expr.name),
                                  b[i].value_expr))
          [] b[i].k = "If" ->
                PIf(b[i].span, b[i].cond_expr, WrittenOut(b[i].if_true),
                    WrittenOut(b[i].if_false))
          [] OTHER -> b[i]]

NoSpan(node) == [f \in DOMAIN node \ {"span"} |-> node[f]]

\* A UserFunction up to source spans (which only label diagnostics).
Unspanned(self) ==
    [self EXCEPT !.statements = [i \in 1..Len(@) |-> NoSpan(@[i])],
                 !.expressions = [i \in 1..Len(@) |-> NoSpan(@[i])],
                 !.error_points = [i \in 1..Len(@) |-> NoSpan(@[i])]]

IsCompound(s) == s.k = "SetVar" /\ s.var_expr.k = "Ident" /\ s.assign_op # "Assign"

\* C8: building `x op= e` gives the nodes that building `x = x op e` gives
\* (the same arenas, variable types and returned references, up to the spans
\* that label diagnostics): the assignment's value is a binary-operation node
\* for op whose first argument is a read of x, built before e, and whose
\* second argument is the built e.
C8_CompoundAssignIsWrittenOut ==
    [][ Called("build_statement_block_ast") =>
          LET b == call'.parser_statements
              w == build_statement_block_ast(Self, WrittenOut(b))
          IN  /\ Unspanned(Self') = Unspanned(w.self)
              /\ result'.tag = w.res.tag
              /\ IsOk(w.res) => result' = w.res
              /\ ~IsOk(w.res) => result'.err = w.res.err
              /\ (IsOk(result') /\ Len(b) >= 1 /\ IsCompound(b[Len(b)])) =>
                    LET s == b[Len(b)]
                        node == statements'[Len(statements')]
                        value == expressions'[node.value_expr + 1]
                    IN  /\ node.kind = "SetVar"
                        /\ node.var_name = s.var_expr.name
                        /\ value.function.name = "BinaryIntOp"
                        /\ value.function.s = AssignOp(s.assign_op)
                        /\ Len(value.args) = 2
                        /\ value.args[1] < value.args[2]
                        /\ expressions'[value.args[1] + 1].function.name = "GetVar"
                        /\ expressions'[value.args[1] + 1].function.s[1] = s.var_expr.name
                        /\ expressions'[value.args[1] + 1].span = s.var_expr.span
                        /\ value.args[2] = node.value_expr - 1
      ]_vars

\* C8 witness: a compound assignment to a bound variable was built.
C8_Witness ==
    /\ call.op = "build_statement_block_ast"
    /\ Len(call.parser_statements) = 1
    /\ IsCompound(call.parser_statements[1])
    /\ result.tag = "Ok"
    /\ statements[Len(statements)].kind = "SetVar"
    /\ expressions[statements[Len(statements)].value_expr + 1].function.name = "BinaryIntOp"

-----------------------------------------------------------------------------
(* C10: the arenas are append-only *)

IsPrefix(old, new) ==
    /\ Len(old) <= Len(new)
    /\ \A i \in 1..Len(old) : new[i] = old[i]

\* C10: every operation, failing ones included, leaves each arena an extension
\* of what it was (no node removed or replaced); add_error_point returns the
\* length the arena had and stores the error there; a successful
\* build_expression_ast returns the index of the node it added last, and a
\* successful build_statement_block_ast returns, in order, indices of nodes it
\* added; so every reference handed out keeps denoting the same node.
C10_ArenasAppendOnly ==
    [][ /\ IsPrefix(statements, statements')
        /\ IsPrefix(expressions, expressions')
        /\ IsPrefix(error_points, error_points')
        /\ Called("add_error_point") =>
              /\ result'.val.idx = Len(error_points)
              /\ error_points' = Append(error_points, call'.error)
              /\ ErrorPointAt(Self', result'.val) = result'.val.error
        /\ (Called("build_expression_ast") /\ IsOk(result')) =>
              /\ result'.val >= Len(expressions)
              /\ result'.val = Len(expressions') - 1
        /\ (Called("build_statement_block_ast") /\ IsOk(result')) =>
              /\ \A i \in 1..Len(result'.val) :
                    /\ result'.val[i] >= Len(statements)
                    /\ result'.val[i] < Len(statements')
                    /\ i > 1 => result'.val[i - 1] < result'.val[i]
              /\ Len(result'.val) = Len(call'.parser_statements)
              /\ Len(result'.val) > 0 =>
                    result'.val[Len(result'.val)] = Len(statements') - 1
      ]_vars

\* C10 witness: a failed build left nodes behind in an arena that already
\* held nodes.
C10_Witness ==
    /\ call.op \in {"build_statement_block_ast", "build_expression_ast"}
    /\ result.tag = "Err"
    /\ ncalls = 2
    /\ Len(expressions) >= 2
    /\ Len(error_points) >= 1

-----------------------------------------------------------------------------
(* C11: the first build-time error aborts the build *)

RECURSIVE PostOrder(_)
\* The statements of a block in the order their nodes are appended: the
\* statements of an `if`'s two blocks come before the `if` itself.
PostOrder(b) ==
    IF b = <<>> THEN <<>>
    ELSE (IF b[1].k = "If" THEN PostOrder(b[1].if_true) \o PostOrder(b[1].if_false)
          ELSE <<>>)
         \o <<b[1]>> \o PostOrder(Tail(b))

\* The kind of node a parsed statement is built into.
NodeKind(ps) == IF ps.k \in {"Become", "Return"} THEN "Return" ELSE ps.k

RECURSIVE ExprSpans(_)
\* The spans of an expression and of the expressions inside it.
ExprSpans(pe) ==
    {pe.span} \cup
    CASE pe.k = "Group" -> ExprSpans(pe.inner)
      [] pe.k = "UnaryOp" -> ExprSpans(pe.operand)
      [] pe.k = "BinaryOp" -> ExprSpans(pe.lhs) \cup ExprSpans(pe.rhs)
      [] pe.k = "Cmp" -> UNION {ExprSpans(pe.exprs[i]) : i \in 1..Len(pe.exprs)}
      [] OTHER -> {}

\* The spans of a statement and of its own expressions (not of the blocks
\* nested in it).
OwnSpans(ps) ==
    {ps.span} \cup
    CASE ps.k = "SetVar" -> ExprSpans(ps.var_expr) \cup ExprSpans(ps.value_expr)
      [] ps.k = "If" -> ExprSpans(ps.cond_expr)
      [] OTHER -> ExprSpans(ps.ret_expr)

\* The statement nodes a step appended to the arena.
AppendedStatements == SubSeq(statements', Len(statements) + 1, Len(statements'))

\* The first statement of block b that n appended nodes do not complete.
FirstUnbuilt(b, n) ==
    CHOOSE i \in 1..Len(b) :
        /\ Len(PostOrder(SubSeq(b, 1, i))) > n
        /\ \A j \in 1..(i - 1) : Len(PostOrder(SubSeq(b, 1, j))) <= n

\* C11: build_statement_block_ast appends the statements' nodes in order
\* and stops at the first statement that fails to build: a failed call
\* appended a node for every statement before the failing one and for no
\* other, neither for the failing statement nor for a block enclosing it
\* nor for anything after it; it returns the failing statement's own error;
\* and it left the function and the result exactly as if the block had
\* ended with the statement that failed.
C11_FirstErrorAborts ==
    [][ Called("build_statement_block_ast") =>
          LET b == call'.parser_statements
              post == PostOrder(b)
              app == AppendedStatements
              n == Len(app)
          IN  /\ n <= Len(post)
              /\ \A j \in 1..n : /\ app[j].kind = NodeKind(post[j])
                                 /\ app[j].span = post[j].span
              /\ IsOk(result') <=> n = Len(post)
              /\ ~IsOk(result') =>
                    LET i == FirstUnbuilt(b, n)
                        cut == build_statement_block_ast(Self, SubSeq(b, 1, i))
                    IN  /\ result' = cut.res
                        /\ Self' = cut.self
                        /\ result'.tag = "Err" => result'.span \in OwnSpans(post[n + 1])
      ]_vars

\* C11 witness: an `if` whose first block failed at its second statement:
\* only the statement before the failing one has a node, and the statement
\* after the `if` was not built.
C11_Witness ==
    /\ call.op = "build_statement_block_ast"
    /\ Len(call.parser_statements) = 2
    /\ call.parser_statements[1].k = "If"
    /\ result = Err("ReturnInTransitionFunction", 12)
    /\ Len(statements) = 1
    /\ statements[1].span = 11
    /\ "y" \notin DOMAIN variables

-----------------------------------------------------------------------------
(* C13: references point backwards *)

\* The expression a statement node refers to.
StatementExpr(node) ==
    CASE node.kind = "SetVar" -> node.value_expr
      [] node.kind = "If" -> node.cond_expr
      [] OTHER -> node.ret_expr

\* References that were handed out one after the other.
Increasing(refs) == \A j \in 1..(Len(refs) - 1) : refs[j] < refs[j + 1]

\* Every reference held by the node at arena position own is a position
\* before it.
Before(refs, own) == \A j \in 1..Len(refs) : refs[j] >= 0 /\ refs[j] < own

\* Every node's references are to nodes inserted before it, in the order
\* they were built.
RefsPointBackwards ==
    /\ \A k \in 1..Len(expressions) :
          /\ Before(expressions[k].args, k - 1)
          /\ Increasing(expressions[k].args)
    /\ \A k \in 1..Len(statements) :
          /\ StatementExpr(statements[k]) \in 0..(Len(expressions) - 1)
          /\ statements[k].kind = "If" =>
                LET nested == statements[k].if_true \o statements[k].if_false
                IN  /\ Before(nested, k - 1)
                    /\ Increasing(nested)
                    /\ \A j \in 1..Len(nested) :
                          StatementExpr(statements[nested[j] + 1])
                             > statements[k].cond_expr

RECURSIVE NodeCount(_)
\* How many nodes an expression is made of, a parenthesised group being
\* none of its own.
NodeCount(pe) ==
    CASE pe.k = "Group" -> NodeCount(pe.inner)
      [] pe.k = "UnaryOp" -> 1 + NodeCount(pe.operand)
      [] pe.k = "BinaryOp" -> 1 + NodeCount(pe.lhs) + NodeCount(pe.rhs)
      [] pe.k = "Cmp" ->
            IF Len(pe.exprs) = 0 THEN 1
            ELSE NodeCount(pe.exprs[1])
                 + NodeCount([pe EXCEPT !.exprs = Tail(pe.exprs)])
      [] OTHER -> 1

\* C13: after every step of a build, also a failed one, every reference
\* stored in a node is to a node with a smaller position in its arena: an
\* expression's arguments are before the expression and in the order of
\* the operands, an `if`'s nested statements are before the `if`, those of
\* the first block before those of the second and all of them built after
\* the condition.  An expression that builds adds one node for each of its
\* parts other than parenthesised groups, the last of them its own.
C13_RefsPointBackwards ==
    [][ /\ RefsPointBackwards'
        /\ (Called("build_expression_ast") /\ IsOk(result')) =>
              /\ Len(expressions') = Len(expressions) + NodeCount(call'.parser_expr)
              /\ result'.val = Len(expressions') - 1
      ]_vars

\* C13 witness: an `if` with statements in both blocks and an expression
\* with two operands were built.
C13_Witness ==
    /\ \E k \in 1..Len(statements) :
          /\ statements[k].kind = "If"
          /\ Len(statements[k].if_true) = 2
          /\ Len(statements[k].if_false) = 1
    /\ \E k \in 1..Len(expressions) : Len(expressions[k].args) = 2
    /\ result.tag = "Ok"

-----------------------------------------------------------------------------
(* The code generator (compiler/mod.rs).                                   *)
(*                                                                         *)
(* LLVM values are kept as the terms that compute them.  Integers of the   *)
(* language's integer type are bit patterns 0 .. 2^IntBits - 1 (two's      *)
(* complement); the 64-bit return word is the set of its set bit positions. *)

\* Width of the language's integer type (INT_BITS), scaled down.
IntBits == 3
\* Width of the return type: Compiler::return_type is i64.
RetBits == 64
\* Blocks one function may hold.
MaxBlocks == 7
\* Largest small error index handed to build_return_error.
MaxErrorIndex == 2

IntPatterns == 0..(2^IntBits - 1)
ToSigned(n) == IF n >= 2^(IntBits - 1) THEN n - 2^IntBits ELSE n
MinInt == -(2^(IntBits - 1))
MaxInt == 2^(IntBits - 1) - 1

\* The bits of a non-negative machine word below 2^31.
BitsOf(n) == {i \in 0..30 : (n \div 2^i) % 2 = 1}

RECURSIVE NatOf(_)
\* The number a set of low bit positions stands for.
NatOf(w) == IF w = {} THEN 0
            ELSE LET i == CHOOSE j \in w : TRUE IN 2^i + NatOf(w \ {i})

\* IntType::const_int(value, sign_extend) of the integer type: the low bits of value.
const_int(value, sign_extend) == [v |-> "const", bits |-> IntBits, n |-> value % 2^IntBits]
\* IntType::const_zero()
const_zero(bits) == [v |-> "const", bits |-> bits, n |-> 0]
\* IntValue::const_shl
const_shl(a, b) == [a EXCEPT !.n = (a.n * 2^(b.n)) % 2^(a.bits)]

Arg(name) == [v |-> "arg", name |-> name]
ICmpEq(a, b) == [v |-> "icmp_eq", a |-> a, b |-> b]
And(a, b) == [v |-> "and", a |-> a, b |-> b]
Call(fn, a, b) == [v |-> "call", fn |-> fn, a |-> a, b |-> b]
ExtractValue(agg, idx) == [v |-> "extractvalue", agg |-> agg, idx |-> idx]
SDiv(a, b) == [v |-> "sdiv", a |-> a, b |-> b]
ZExt64(a) == [v |-> "zext64", a |-> a]
Const64(word) == [v |-> "const64", word |-> word]

\* llvm.s{add,sub,mul}.with.overflow: the wrapped result and the overflow flag.
WithOverflow(name, a, b) ==
    LET exact == CASE name = "sadd" -> ToSigned(a) + ToSigned(b)
                   [] name = "ssub" -> ToSigned(a) - ToSigned(b)
                   [] name = "smul" -> ToSigned(a) * ToSigned(b)
    IN  [res |-> exact % 2^IntBits,
         ovf |-> IF exact < MinInt \/ exact > MaxInt THEN 1 ELSE 0]

\* sdiv: signed division rounding toward zero (the operands are not 0 and not MIN / -1).
SignedDiv(a, b) ==
    LET x == ToSigned(a)
        y == ToSigned(b)
        ax == IF x < 0 THEN -x ELSE x
        ay == IF y < 0 THEN -y ELSE y
        q == ax \div ay
    IN  (IF (x < 0) = (y < 0) THEN q ELSE -q) % 2^IntBits

RECURSIVE Eval(_, _)
\* The value a term has when the function is called with the given arguments.
Eval(val, args) ==
    CASE val.v = "arg" -> args[val.name]
      [] val.v = "const" -> val.n
      [] val.v = "icmp_eq" -> IF Eval(val.a, args) = Eval(val.b, args) THEN 1 ELSE 0
      [] val.v = "and" -> NatOf(BitsOf(Eval(val.a, args)) \cap BitsOf(Eval(val.b, args)))
      [] val.v = "call" -> WithOverflow(val.fn[2], Eval(val.a, args), Eval(val.b, args))
      [] val.v = "extractvalue" ->
            IF val.idx = 0 THEN Eval(val.agg, args).res ELSE Eval(val.agg, args).ovf
      [] val.v = "sdiv" -> SignedDiv(Eval(val.a, args), Eval(val.b, args))
      [] val.v = "zext64" -> BitsOf(Eval(val.a, args))
      [] val.v = "const64" -> val.word

IsTerminator(instr) == instr.op \in {"switch", "br", "ret"}

\* The Compiler as a value, so that the recursive builders can thread it,
\* together with the contexts its methods reach through get_ctx().
Compiler ==
    [blocks |-> blocks, cursor |-> cursor, module |-> module, log |-> cglog,
     ctx |-> CtxState]

\* A call of get_ctx() from a method of the Compiler.
GetCtx(c) == [c EXCEPT !.ctx = get_ctx(@, CompilerThread)]
\* return_type(&self): get_ctx().i64_type()
Compiler_return_type(c) == GetCtx(c)
\* int_type(&self): get_ctx().custom_width_int_type(INT_BITS)
int_type(c) == GetCtx(c)

\* cell_state_type(&self): get_ctx().custom_width_int_type(CELL_STATE_BITS)
cell_state_type(c) == GetCtx(c)

\* Builder::build_*: the instruction goes to the end of the insert block.
Emit(c, instr) == [c EXCEPT !.blocks[c.cursor] = Append(@, instr)]
\* Builder::position_at_end
position_at_end(c, bb) == [c EXCEPT !.cursor = bb]
Logged(c, entry) == [c EXCEPT !.log = Append(@, entry)]

\* append_basic_block(&mut self, name) -> BasicBlock
append_basic_block(c, name) ==
    [c |-> [GetCtx(c) EXCEPT !.blocks = Append(@, <<>>)], ret |-> Len(c.blocks) + 1]

\* needs_terminator(&self): the insert block has no terminator, that is, it
\* is empty or its last instruction is not one.
needs_terminator(c) ==
    LET b == c.blocks[c.cursor]
    IN  IF Len(b) = 0 THEN TRUE ELSE ~IsTerminator(b[Len(b)])

\* get_llvm_intrinisic(&mut self, name, fn_type)
get_llvm_intrinisic(c, name, fn_type) ==
    IF name \in DOMAIN c.module
    THEN IF c.module[name] = fn_type
         THEN [c |-> c, res |-> Ok(name)]
         ELSE [c |-> c, res |-> Err("InternalError: intrinsic type mismatch", 0)]
    ELSE [c |-> [c EXCEPT !.module = [n \in DOMAIN c.module \cup {name} |->
                                         IF n = name THEN fn_type ELSE c.module[n]]],
          res |-> Ok(name)]

\* builder().build_store(ptr, value)
build_store(c, var, val) ==
    Logged(Emit(c, [op |-> "store", var |-> var, val |-> val]),
           [op |-> "build_store", needed |-> needs_terminator(c),
            bb |-> c.cursor, ix |-> Len(c.blocks[c.cursor]) + 1])

\* build_return_cell_state(&mut self, value)
build_return_cell_state(c, value) ==
    Logged(Emit(c, [op |-> "ret", val |-> value]),
           [op |-> "build_return_cell_state", value |-> value,
            needed |-> needs_terminator(c),
            bb |-> c.cursor, ix |-> Len(c.blocks[c.cursor]) + 1])

\* An error encoding that sets the bit below the top one.
ReturnErrorWordBit62(error_index) == BitsOf(error_index) \cup {RetBits - 2}

\* Line 137: error_index | (1 << 63)
ReturnErrorWord(error_index) == BitsOf(error_index) \cup {RetBits - 1}

\* build_return_error(&mut self, error_index)
build_return_error(c, error_index) ==
    Logged(Emit(Compiler_return_type(c),
                [op |-> "ret", val |-> Const64(ReturnErrorWord(error_index))]),
           [op |-> "build_return_error", error_index |-> error_index,
            needed |-> needs_terminator(c),
            bb |-> c.cursor, ix |-> Len(c.blocks[c.cursor]) + 1])

\* A minimum that is shifted one bit short.
get_min_int_value_short(c) ==
    [c |-> int_type(int_type(int_type(c))),
     ret |-> const_shl(const_int(1, FALSE), const_int(IntBits - 2, FALSE))]

\* get_min_int_value(&self): 1 << (bit width - 1)
get_min_int_value(c) ==
    [c |-> int_type(int_type(int_type(c))),
     ret |-> const_shl(const_int(1, FALSE), const_int(IntBits - 1, FALSE))]

\* A switch whose zero case goes to the true arm.
SwitchSwapped(condition_value, if_true_bb, if_false_bb) ==
    [op |-> "switch", cond |-> condition_value,
     default |-> if_false_bb, zero |-> if_true_bb]

\* Lines 110-114: switch on the condition: zero goes to ifFalse, every other
\* value to the default destination ifTrue.
Switch(condition_value, if_true_bb, if_false_bb) ==
    [op |-> "switch", cond |-> condition_value,
     default |-> if_true_bb, zero |-> if_false_bb]

\* An arm ending that never branches to the merge block.
BranchNever(c, merge_bb) == c

\* An arm ending that branches to the merge block whether or not the arm terminated.
BranchAlways(c, merge_bb) == Emit(c, [op |-> "br", target |-> merge_bb])

\* Lines 119-121 and 126-128: branch to the merge block if the arm left its
\* last block without a terminator.
BranchIfNeeded(c, merge_bb) ==
    IF needs_terminator(c) THEN Emit(c, [op |-> "br", target |-> merge_bb]) ELSE c

\* An operation that returned Err: what it had done by then stays done.  e is
\* the record of the call; the block it stopped in is recorded with it.
Failed(e, r, name) ==
    [c |-> Logged(r.c, [op |-> "failed", by |-> name, end |-> r.c.cursor] @@ e),
     res |-> r.res]

RECURSIVE build_conditional(_, _, _, _)
RECURSIVE build_checked_int_arithmetic(_, _, _, _, _)
RECURSIVE build_div_check(_, _, _, _, _)
RECURSIVE RunCallback(_, _, _)

\* Builder::build_int_compare(IntPredicate::EQ, lhs, rhs, name): the builder
\* folds a comparison of two constants into an i1 constant and appends no
\* instruction; otherwise it appends the comparison.
build_int_compare(c, lhs, rhs, name) ==
    IF lhs.v = "const" /\ rhs.v = "const"
    THEN [c |-> c,
          ret |-> [v |-> "const", bits |-> 1, n |-> IF lhs.n = rhs.n THEN 1 ELSE 0]]
    ELSE [c |-> Emit(c, [op |-> "def", name |-> name, val |-> ICmpEq(lhs, rhs)]),
          ret |-> ICmpEq(lhs, rhs)]

\* Builder::build_and(lhs, rhs, name): the builder folds two constants and
\* appends the instruction otherwise (one constant operand, all-ones
\* included, does not fold).
build_and(c, lhs, rhs, name) ==
    IF lhs.v = "const" /\ rhs.v = "const"
    THEN [c |-> c,
          ret |-> [v |-> "const", bits |-> lhs.bits,
                   n |-> NatOf(BitsOf(lhs.n) \cap BitsOf(rhs.n))]]
    ELSE [c |-> Emit(c, [op |-> "def", name |-> name, val |-> And(lhs, rhs)]),
          ret |-> And(lhs, rhs)]

\* Lines 220-244: the closure build_div_check passes as the false arm of its
\* first conditional: the overflow stage, once get_min_int_value has returned m.
DivOverflowChecks(m, lhs, rhs, on_overflow) ==
    LET num_is_min_value == build_int_compare(m.c, lhs, m.ret, "isMinValue")
        denom_is_neg_one == build_int_compare(int_type(num_is_min_value.c), rhs,
                                              const_int(-1, TRUE), "isNegOne")
        is_overflow == build_and(denom_is_neg_one.c, num_is_min_value.ret,
                                 denom_is_neg_one.ret, "isOverflow")
    IN  build_conditional(is_overflow.c, is_overflow.ret, on_overflow, <<>>)

DivOverflowStage(c, lhs, rhs, on_overflow) ==
    DivOverflowChecks(get_min_int_value(c), lhs, rhs, on_overflow)

\* What a callback's step returned: `?` ends the callback on Err.
CallbackStep(r, body, i) == IF IsOk(r.res) THEN RunCallback(r.c, body, i + 1) ELSE r

\* A build callback (impl FnOnce(&mut Compiler) -> LangResult<()>) is the
\* sequence of things it does to the Compiler; <<>> is |_| Ok(()).
RunCallback(c, body, i) ==
    IF i > Len(body)
    THEN [c |-> c, res |-> Ok(<<>>)]
    ELSE CASE body[i].op = "store" ->
                RunCallback(build_store(c, body[i].var, body[i].val), body, i + 1)
           [] body[i].op = "error_point" ->   \* ErrorPointRef::compile
                RunCallback(build_return_error(c, body[i].idx), body, i + 1)
           [] body[i].op = "return" ->
                RunCallback(build_return_cell_state(c, body[i].val), body, i + 1)
           [] body[i].op = "if" ->
                CallbackStep(build_conditional(c, body[i].cond, body[i].if_true,
                                               body[i].if_false), body, i)
           [] body[i].op = "div_overflow_stage" ->
                CallbackStep(DivOverflowStage(c, body[i].lhs, body[i].rhs,
                                              body[i].on_overflow), body, i)
           [] body[i].op = "checked_arithmetic" ->
                CallbackStep(build_checked_int_arithmetic(c, body[i].lhs, body[i].rhs,
                                                          body[i].name, body[i].on_overflow),
                             body, i)
           [] body[i].op = "div_check" ->
                CallbackStep(build_div_check(c, body[i].lhs, body[i].rhs,
                                             body[i].on_overflow, body[i].on_div_by_zero),
                             body, i)
           [] body[i].op = "fail" ->
                [c |-> c, res |-> Err(body[i].err, 0)]

\* compile_statement(&self, compiler, statement): self[statement].compile(
\* compiler, self).  Indexing past the end of the arena panics; compile is
\* what the node does to the Compiler.
compile_statement(self, c, statement, compile) ==
    IF statement >= Len(self.statements)
    THEN [c |-> c, res |-> Panic("index out of bounds")]
    ELSE RunCallback(c, compile, 1)

\* compile_expr(&self, compiler, expr): self[expr].compile(compiler, self),
\* whose Ok carries the value of the expression.
compile_expr(self, c, expr, compile, value) ==
    IF expr >= Len(self.expressions)
    THEN [c |-> c, res |-> Panic("index out of bounds")]
    ELSE [RunCallback(c, compile, 1) EXCEPT !.res = IF IsOk(@) THEN Ok(value) ELSE @]

\* build_conditional step by step.  e is the record of the call, filled in
\* as the call goes on; the other argument is what the step before returned.

\* Lines 129-130: position_at_end(merge_bb); Ok(())
FalseArmEnded(e, c) ==
    [c |-> Logged(position_at_end(c, e.merge_bb),
                  e @@ [false_ix |-> Len(c.blocks[e.false_end])]),
     res |-> Ok(<<>>)]

\* Lines 125-128: build_if_false(self)? and the branch after the false arm.
FalseArmBuilt(e, r) ==
    IF ~IsOk(r.res) THEN Failed(e, r, "build_conditional")
    ELSE FalseArmEnded(e @@ [false_end |-> r.c.cursor,
                             false_needed |-> needs_terminator(r.c)],
                       BranchIfNeeded(r.c, e.merge_bb))

\* Lines 124-125: position_at_end(if_false_bb); build_if_false(self)
TrueArmEnded(e, c) ==
    FalseArmBuilt(e @@ [true_ix |-> Len(c.blocks[e.true_end])],
                  RunCallback(position_at_end(c, e.if_false_bb), e.build_if_false, 1))

\* Lines 118-121: build_if_true(self)? and the branch after the true arm.
TrueArmBuilt(e, r) ==
    IF ~IsOk(r.res) THEN Failed(e, r, "build_conditional")
    ELSE TrueArmEnded(e @@ [true_end |-> r.c.cursor,
                            true_needed |-> needs_terminator(r.c)],
                      BranchIfNeeded(r.c, e.merge_bb))

\* Lines 106-118: the merge block, the switch, position_at_end(if_true_bb);
\* build_if_true(self)
EndIfBlock(e, m) ==
    TrueArmBuilt(e @@ [merge_bb |-> m.ret],
                 RunCallback(position_at_end(Emit(m.c, Switch(e.condition, e.if_true_bb,
                                                              e.if_false_bb)),
                                             e.if_true_bb),
                             e.build_if_true, 1))

\* Lines 105-106
IfFalseBlock(e, f) ==
    EndIfBlock(e @@ [if_false_bb |-> f.ret], append_basic_block(f.c, "endIf"))

\* Lines 104-105
IfTrueBlock(e, t) ==
    IfFalseBlock(e @@ [if_true_bb |-> t.ret], append_basic_block(t.c, "ifFalse"))

\* build_conditional(&mut self, condition_value, build_if_true, build_if_false)
build_conditional(c, condition_value, build_if_true, build_if_false) ==
    IfTrueBlock([op |-> "build_conditional",
                 condition |-> condition_value,
                 build_if_true |-> build_if_true,
                 build_if_false |-> build_if_false,
                 needed |-> needs_terminator(c),
                 from_bb |-> c.cursor,
                 ix |-> Len(c.blocks[c.cursor]) + 1],
                append_basic_block(c, "ifTrue"))

\* The name build_checked_int_arithmetic forms: llvm.{name}.with.overflow.i{bits}
IntrinsicName(name) == <<"llvm", name, "with.overflow.i", IntBits>>

\* Lines 154-158: the intrinsic's type: fn(int, int) -> {int, bool}
IntrinsicFnType == [ret |-> <<IntBits, 1>>, params |-> <<IntBits, IntBits>>]

\* Lines 197-199: build_conditional(..)?; Ok(result_value)
CheckedConditional(e, result_value, r) ==
    IF ~IsOk(r.res) THEN Failed(e, r, "build_checked_int_arithmetic")
    ELSE [c |-> Logged(r.c, e @@ [result |-> result_value, merge_bb |-> r.c.cursor]),
          res |-> Ok(result_value)]

\* Lines 159-197: get_llvm_intrinisic(..)? returned g; the call, the two
\* extracted values and the conditional with the given arms.
CheckedIntrinsic(e, g, if_overflow, otherwise) ==
    LET return_value == Call(IntrinsicName(e.name), e.lhs, e.rhs)
        result_value == ExtractValue(return_value, 0)
        is_overflow == ExtractValue(return_value, 1)
    IN  IF ~IsOk(g.res) THEN Failed(e, g, "build_checked_int_arithmetic")
        ELSE CheckedConditional(e, result_value,
                 build_conditional(
                     Emit(Emit(Emit(g.c, [op |-> "def", name |-> "tmp_call",
                                          val |-> return_value]),
                               [op |-> "def", name |-> "tmp_Result", val |-> result_value]),
                          [op |-> "def", name |-> "tmp_Overflow", val |-> is_overflow]),
                     is_overflow, if_overflow, otherwise))

\* The record of a call of build_checked_int_arithmetic.
CheckedCall(c, lhs, rhs, name, on_overflow) ==
    [op |-> "build_checked_int_arithmetic",
     name |-> name, lhs |-> lhs, rhs |-> rhs, on_overflow |-> on_overflow,
     needed |-> needs_terminator(c),
     from_bb |-> c.cursor,
     ix |-> Len(c.blocks[c.cursor]) + 1]

\* A checked arithmetic that runs on_overflow when there is no overflow.
build_checked_int_arithmetic_swapped(c, lhs, rhs, name, on_overflow) ==
    CheckedIntrinsic(CheckedCall(c, lhs, rhs, name, on_overflow),
                     get_llvm_intrinisic(int_type(GetCtx(int_type(GetCtx(int_type(c))))),
                                         IntrinsicName(name), IntrinsicFnType),
                     <<>>, on_overflow)

\* build_checked_int_arithmetic(&mut self, lhs, rhs, name, on_overflow)
build_checked_int_arithmetic(c, lhs, rhs, name, on_overflow) ==
    CheckedIntrinsic(CheckedCall(c, lhs, rhs, name, on_overflow),
                     get_llvm_intrinisic(int_type(GetCtx(int_type(GetCtx(int_type(c))))),
                                         IntrinsicName(name), IntrinsicFnType),
                     on_overflow, <<>>)

\* Line 245: what build_div_check's conditional returned is what it returns.
DivChecked(e, r) ==
    IF ~IsOk(r.res) THEN Failed(e, r, "build_div_check")
    ELSE [c |-> Logged(r.c, e @@ [last_bb |-> Len(r.c.blocks), merge_bb |-> r.c.cursor]),
          res |-> Ok(<<>>)]

\* build_div_check(&mut self, lhs, rhs, on_overflow, on_div_by_zero)
build_div_check(c, lhs, rhs, on_overflow, on_div_by_zero) ==
    DivChecked([op |-> "build_div_check", lhs |-> lhs, rhs |-> rhs,
                on_overflow |-> on_overflow,
                on_div_by_zero |-> on_div_by_zero,
                needed |-> needs_terminator(c),
                from_bb |-> c.cursor,
                ix |-> Len(c.blocks[c.cursor]) + 1,
                first_bb |-> Len(c.blocks) + 1],
               LET is_div_by_zero == build_int_compare(int_type(c), rhs,
                                                       const_zero(IntBits), "isDivByZero")
               IN  build_conditional(
                       is_div_by_zero.c, is_div_by_zero.ret, on_div_by_zero,
                       <<[op |-> "div_overflow_stage", lhs |-> lhs, rhs |-> rhs,
                          on_overflow |-> on_overflow]>>))

-----------------------------------------------------------------------------
(* Executing the emitted function, one instruction a step *)

\* A call of the function with the given arguments enters the entry block.
Started(lhs, rhs) ==
    [status |-> "running", args |-> [lhs |-> lhs, rhs |-> rhs],
     bb |-> 1, ip |-> 1, visited |-> {1}, executed |-> {}, evaluated |-> {},
     effects |-> <<>>, retval |-> {}]

\* The state after the instruction at (bb, ip).  Running off the end of the
\* builder's insert block is reaching the point where the caller emits what
\* comes next; running off the end of any other block is falling into a block
\* that has no terminator.
Stepped(r, c) ==
    LET b == c.blocks[r.bb]
    IN  IF r.ip > Len(b)
        THEN [r EXCEPT !.status = IF r.bb = c.cursor THEN "continuation" ELSE "stuck"]
        ELSE LET i == b[r.ip]
                 x == [r EXCEPT !.executed = @ \cup {<<r.bb, r.ip>>}]
                 goto(target) == [x EXCEPT !.bb = target, !.ip = 1,
                                           !.visited = @ \cup {target}]
             IN  CASE i.op = "def" ->
                        [x EXCEPT !.ip = @ + 1, !.evaluated = @ \cup {i.name}]
                   [] i.op = "store" ->
                        [x EXCEPT !.ip = @ + 1,
                                  !.effects = Append(@, [bb |-> r.bb, var |-> i.var,
                                                         val |-> Eval(i.val, r.args)])]
                   [] i.op = "switch" ->
                        goto(IF Eval(i.cond, r.args) = 0 THEN i.zero ELSE i.default)
                   [] i.op = "br" -> goto(i.target)
                   [] i.op = "ret" ->
                        [x EXCEPT !.status = "returned", !.retval = Eval(i.val, r.args)]

ExecStep ==
    /\ run.status = "running"
    /\ run' = Stepped(run, Compiler)
    /\ UNCHANGED <<blocks, cursor, module, cglog, cgres, CTX, contexts, threads>>
    /\ UNCHANGED ufvars

\* The host's decoding of the return word: the top bit tells an error from a
\* result, the other bits are the error-point index or the result.
Decode(word) ==
    [is_error |-> (RetBits - 1) \in word, payload |-> word \ {RetBits - 1}]

-----------------------------------------------------------------------------
(* CgSpec: the operations of one Compiler called from outside, in any      *)
(* order, and the emitted function called by the host.                     *)

\* Operations called on one Compiler from outside.
MaxOps == 2

SetCompiler(c) ==
    /\ blocks' = c.blocks
    /\ cursor' = c.cursor
    /\ module' = c.module
    /\ cglog' = c.log
    /\ SetCtx(c.ctx)

\* One more operation is called on the Compiler; the host is not running the
\* function, and no operation has panicked.
CgCall ==
    /\ run.status = "idle"
    /\ cgres.tag # "Panic"
    /\ ncalls < MaxOps
    /\ ncalls' = ncalls + 1
    /\ UNCHANGED run
    /\ UNCHANGED ufdata

StoreOp(var, n) == [op |-> "store", var |-> var, val |-> const_int(n, FALSE)]
ErrorPointOp(idx) == [op |-> "error_point", idx |-> idx]
IfOp(cond, t, f) == [op |-> "if", cond |-> cond, if_true |-> t, if_false |-> f]
FailOp == [op |-> "fail", err |-> "TypeError"]

\* The calls of build_conditional: conditions of the integer width and of
\* one bit; arms that store, that nest a conditional, that end in an error
\* point, that go on after an error point, that fail.
ConditionalCalls ==
    LET WideCondition == Arg("lhs")
        BitCondition == ICmpEq(Arg("lhs"), const_zero(IntBits))
        Conditional(cond, t, f) == [cond |-> cond, build_if_true |-> t, build_if_false |-> f]
    IN  {Conditional(WideCondition, <<StoreOp("a", 1)>>, <<StoreOp("b", 2)>>),
         Conditional(BitCondition, <<StoreOp("a", 1)>>, <<>>),
         Conditional(WideCondition,
                     <<IfOp(Arg("rhs"), <<>>, <<StoreOp("b", 2), ErrorPointOp(0)>>),
                       StoreOp("a", 3)>>,
                     <<ErrorPointOp(1)>>),
         Conditional(BitCondition,
                     <<IfOp(Arg("rhs"), <<ErrorPointOp(0)>>, <<ErrorPointOp(2)>>)>>, <<>>),
         Conditional(WideCondition,
                     <<StoreOp("a", 3), IfOp(Arg("rhs"), <<FailOp>>, <<>>)>>, <<>>),
         Conditional(BitCondition, <<>>, <<FailOp>>),
         Conditional(WideCondition, <<ErrorPointOp(1), StoreOp("a", 1)>>, <<>>)}

ErrorIndexes == {0, MaxErrorIndex, 2^30 - 1}

\* Results as the caller hands them to build_return_cell_state: 64-bit values
\* whose top bit is clear.
ResultValues == {Const64({0, 1}), Const64(0..(RetBits - 2)), ZExt64(Arg("lhs"))}

\* The UserFunction whose nodes are compiled: a transition function built
\* from  x = 1  if x { become #x }.
UfBuilt ==
    LET r == build_statement_block_ast(
                 new_transition_function,
                 <<PSetVar(1, PIdent(2, "x"), "Assign", PInt(2, 1)),
                   PIf(1, PIdent(2, "x"),
                       <<PBecome(1, PUnaryOp(2, "Tag", PIdent(2, "x")))>>, <<>>)>>)
    IN  /\ is_transition_function = r.self.is_transition_function
        /\ return_type = r.self.return_type
        /\ statements = r.self.statements
        /\ expressions = r.self.expressions
        /\ error_points = r.self.error_points
        /\ variables = r.self.variables
        /\ call = [op |-> "build_statement_block_ast"]
        /\ ncalls = 0
        /\ result = r.res

CgInit == UfBuilt /\ CgNew

CgBuildConditional ==
    \E a \in ConditionalCalls :
        LET r == build_conditional(Compiler, a.cond, a.build_if_true, a.build_if_false)
        IN  /\ CgCall
            /\ Len(r.c.blocks) <= MaxBlocks
            /\ SetCompiler(r.c)
            /\ cgres' = r.res

CgBuildReturnError ==
    \E k \in ErrorIndexes :
        /\ CgCall
        /\ SetCompiler(build_return_error(Compiler, k))
        /\ cgres' = [tag |-> "Unit"]

CgBuildReturnCellState ==
    \E value \in ResultValues :
        /\ CgCall
        /\ SetCompiler(build_return_cell_state(Compiler, value))
        /\ cgres' = [tag |-> "Unit"]

\* append_basic_block called from outside.
CgAppendBasicBlock ==
    LET r == append_basic_block(Compiler, "bb")
    IN  /\ CgCall
        /\ Len(r.c.blocks) <= MaxBlocks
        /\ SetCompiler(Logged(r.c, [op |-> "append_basic_block", bb |-> r.ret]))
        /\ cgres' = [tag |-> "Block", val |-> r.ret]

\* builder().position_at_end(bb) called from outside, on the entry block or
\* on the newest block of the function.
CgPositionAtEnd ==
    \E bb \in {1, Len(blocks)} :
        /\ CgCall
        /\ SetCompiler(Logged(position_at_end(Compiler, bb),
                              [op |-> "position_at_end", bb |-> bb, from |-> cursor,
                               open |-> needs_terminator(Compiler)]))
        /\ cgres' = [tag |-> "Unit"]

\* builder().build_store(..) called from outside.
CgBuildStore ==
    /\ CgCall
    /\ SetCompiler(build_store(Compiler, "a", const_int(1, FALSE)))
    /\ cgres' = [tag |-> "Unit"]

\* get_llvm_intrinisic called from outside, for the type the intrinsic has
\* and for another one.
CgGetLlvmIntrinisic ==
    \E fn_type \in {IntrinsicFnType, [ret |-> <<IntBits>>, params |-> <<IntBits>>]} :
        LET r == get_llvm_intrinisic(Compiler, IntrinsicName("sadd"), fn_type)
        IN  /\ CgCall
            /\ SetCompiler(IF IsOk(r.res)
                           THEN Logged(r.c, [op |-> "get_llvm_intrinisic",
                                             fn |-> IntrinsicName("sadd")])
                           ELSE Failed([fn |-> IntrinsicName("sadd")], r, "get_llvm_intrinisic").c)
            /\ cgres' = r.res

\* compile_statement called from outside, with a reference into the arena
\* and with one past its end.  Statement::compile is outside these sources:
\* the node stores, or branches to an error point, or fails half way.
CgCompileStatement ==
    \E statement \in {0, Len(statements)},
       compile \in {<<StoreOp("a", 1)>>,
                    <<IfOp(Arg("lhs"), <<ErrorPointOp(0)>>, <<StoreOp("b", 2)>>)>>,
                    <<StoreOp("a", 1), FailOp>>} :
        LET r == compile_statement(Self, Compiler, statement, compile)
        IN  /\ CgCall
            /\ Len(r.c.blocks) <= MaxBlocks
            /\ SetCompiler(IF r.res.tag = "Err" THEN Failed([statement |-> statement], r, "compile_statement").c
                           ELSE r.c)
            /\ cgres' = r.res

\* compile_expr called from outside, likewise.  Expr::compile is outside
\* these sources: the node hands back a constant, or a checked sum, or a
\* quotient whose operands it has checked, or fails.
CgCompileExpr ==
    \E expr \in {Len(expressions) - 1, Len(expressions)},
       n \in {[compile |-> <<>>, value |-> const_int(1, TRUE)],
              [compile |-> <<[op |-> "checked_arithmetic", name |-> "sadd",
                              lhs |-> Arg("lhs"), rhs |-> const_int(1, TRUE),
                              on_overflow |-> <<ErrorPointOp(0)>>]>>,
               value |-> ExtractValue(Call(IntrinsicName("sadd"), Arg("lhs"),
                                           const_int(1, TRUE)), 0)],
              [compile |-> <<[op |-> "div_check", lhs |-> Arg("lhs"), rhs |-> Arg("rhs"),
                              on_overflow |-> <<ErrorPointOp(0)>>,
                              on_div_by_zero |-> <<ErrorPointOp(1)>>]>>,
               value |-> SDiv(Arg("lhs"), Arg("rhs"))],
              [compile |-> <<FailOp>>, value |-> Arg("lhs")]} :
        LET r == compile_expr(Self, Compiler, expr, n.compile, n.value)
        IN  /\ CgCall
            /\ Len(r.c.blocks) <= MaxBlocks
            /\ SetCompiler(IF r.res.tag = "Err" THEN Failed([expr |-> expr], r, "compile_expr").c
                           ELSE r.c)
            /\ cgres' = r.res

\* return_type, int_type and cell_state_type called from outside.
CgIntType ==
    \E f \in {"return_type", "int_type", "cell_state_type"} :
        /\ CgCall
        /\ SetCompiler(CASE f = "return_type" -> Compiler_return_type(Compiler)
                         [] f = "int_type" -> int_type(Compiler)
                         [] OTHER -> cell_state_type(Compiler))
        /\ cgres' = [tag |-> "IntType"]

\* Condition values: zero, two (not zero, lowest bit clear) and minus one.
ConditionInputs == {0, 2, 2^IntBits - 1}

\* The host calls the emitted function.  A panic or an Err aborts the
\* generation: a function an operation failed on is never called.
CgExecStart ==
    \E lhs \in ConditionInputs, rhs \in {0, 1} :
        /\ run.status = "idle"
        /\ cgres.tag # "Panic"
        /\ \A i \in 1..Len(cglog) : cglog[i].op # "failed"
        /\ run' = Started(lhs, rhs)
        /\ UNCHANGED <<blocks, cursor, module, cglog, cgres, CTX, contexts, threads>>
        /\ UNCHANGED ufvars

CgNext ==
    \/ CgBuildConditional
    \/ CgBuildReturnError
    \/ CgBuildReturnCellState
    \/ CgAppendBasicBlock
    \/ CgPositionAtEnd
    \/ CgBuildStore
    \/ CgGetLlvmIntrinisic
    \/ CgIntType
    \/ CgCompileStatement
    \/ CgCompileExpr
    \/ CgExecStart
    \/ ExecStep

CgSpec == CgInit /\ [][CgNext]_vars

\* A started call keeps executing instructions until it returns or stops.
CgFairSpec == CgInit /\ [][CgNext]_vars /\ WF_vars(ExecStep)

-----------------------------------------------------------------------------
(* Claims about the emitted control flow (checked under CgSpec; C9 under   *)
(* CgFairSpec)                                                             *)

LogEntries(op) == {i \in 1..Len(cglog) : cglog[i].op = op}
Finished == run.status \in {"returned", "continuation", "stuck"}

\* No instruction was emitted behind a terminator: every operation that
\* emits (one that failed included) found its block without one.
InOrder ==
    \A i \in 1..Len(cglog) : "needed" \in DOMAIN cglog[i] => cglog[i].needed

\* The state right after build_conditional, called from outside, returned Ok.
ConditionalReturned ==
    /\ cgres.tag = "Ok"
    /\ Len(cglog) > 0
    /\ cglog[Len(cglog)].op = "build_conditional"

\* C3: the word build_return_error(k) returns decodes to (is_error, k); a
\* result whose top bit is clear decodes to (no error, itself); so no error
\* word equals a result word, two error indices never share a word, and a
\* call that returns through an error point hands the host that index.
C3_ReturnEncodingRoundTrip ==
    /\ \A i \in LogEntries("build_return_error") :
          LET instr == blocks[cglog[i].bb][cglog[i].ix]
              d == Decode(instr.val.word)
          IN  /\ instr.op = "ret" /\ instr.val.v = "const64"
              /\ d.is_error
              /\ NatOf(d.payload) = cglog[i].error_index
              /\ \A j \in LogEntries("build_return_error") :
                    cglog[j].error_index # cglog[i].error_index
                        => blocks[cglog[j].bb][cglog[j].ix].val.word # instr.val.word
              /\ \A j \in LogEntries("build_return_cell_state") :
                    LET v == cglog[j].value
                    IN  (v.v = "const64" /\ (RetBits - 1) \notin v.word)
                            => /\ Decode(v.word) = [is_error |-> FALSE, payload |-> v.word]
                               /\ v.word # instr.val.word
    /\ run.status = "returned" =>
          \A i \in 1..Len(cglog) :
              IF cglog[i].op \in {"build_return_error", "build_return_cell_state"}
              THEN (cglog[i].bb = run.bb /\ cglog[i].ix = run.ip)
                      => IF cglog[i].op = "build_return_error"
                         THEN Decode(run.retval) =
                                 [is_error |-> TRUE, payload |-> BitsOf(cglog[i].error_index)]
                         ELSE Decode(run.retval) = [is_error |-> FALSE, payload |-> run.retval]
              ELSE TRUE

\* C3 witness: a call returned through an error point with a non-zero index
\* in a function that also returns a result.
C3_Witness ==
    /\ run.status = "returned"
    /\ Decode(run.retval).is_error
    /\ NatOf(Decode(run.retval).payload) = 2
    /\ LogEntries("build_return_cell_state") # {}
    /\ \E i \in LogEntries("build_return_error") : cglog[i].error_index = 0

\* The blocks an instruction can pass control to.
Successors(b) ==
    IF Len(blocks[b]) = 0 THEN {}
    ELSE LET i == blocks[b][Len(blocks[b])]
         IN  CASE i.op = "switch" -> {i.default, i.zero}
               [] i.op = "br" -> {i.target}
               [] OTHER -> {}

RECURSIVE ReachWithout(_, _, _)
\* The blocks reached from the frontier without entering `stop`.
ReachWithout(frontier, seen, stop) ==
    IF frontier = {} THEN seen
    ELSE LET next == (UNION {Successors(b) : b \in frontier}) \ (seen \cup {stop})
         IN  ReachWithout(next, seen \cup next, stop)

\* The blocks of one arm of a conditional: from its first block up to the merge block.
ArmBlocks(first, merge) == ReachWithout({first}, {first}, merge)

\* C6: a conditional whose condition is not zero (whatever its width) runs
\* the true arm and no block of the false arm, one whose condition is zero
\* runs the false arm and no block of the true arm; the stores that took
\* place come from the taken arm only.  (A call runs the conditional when
\* it executes its switch.)
C6_OnlyTakenArmRuns ==
    \A i \in LogEntries("build_conditional") :
        LET e == cglog[i]
            cond == Eval(e.condition, run.args)
            taken == IF cond # 0 THEN e.if_true_bb ELSE e.if_false_bb
            other == IF cond # 0 THEN e.if_false_bb ELSE e.if_true_bb
            skipped == ArmBlocks(other, e.merge_bb)
        IN  (run.status # "idle" /\ <<e.from_bb, e.ix>> \in run.executed) =>
               /\ taken \in run.visited
               /\ run.visited \cap skipped = {}
               /\ \A k \in 1..Len(run.effects) : run.effects[k].bb \notin skipped
               /\ e.merge_bb \in run.visited =>
                     \A k \in 1..Len(run.effects) :
                         run.effects[k].bb \in ArmBlocks(e.if_true_bb, e.merge_bb)
                             => cond # 0

\* C6 witness: a condition of the integer width that is neither 0 nor 1 took
\* the true arm, whose store happened, and the merge block was reached.
C6_Witness ==
    \E i \in LogEntries("build_conditional") :
        /\ run.status # "idle"
        /\ cglog[i].condition = Arg("lhs")
        /\ run.args.lhs = 2^IntBits - 1
        /\ cglog[i].merge_bb \in run.visited
        /\ \E k \in 1..Len(run.effects) : run.effects[k].bb = cglog[i].if_true_bb
        /\ Len(blocks[cglog[i].if_false_bb]) > 1

Terminators(b) == {k \in 1..Len(blocks[b]) : IsTerminator(blocks[b][k])}

\* C7 as stated: once build_conditional has returned, no block holds more
\* than one terminator, both arms' final blocks are terminated, and the
\* builder is at the merge block.
C7_OneTerminatorPerBlock ==
    ConditionalReturned =>
        LET e == cglog[Len(cglog)]
        IN  /\ \A b \in 1..Len(blocks) : Cardinality(Terminators(b)) <= 1
            /\ Terminators(e.true_end) # {}
            /\ Terminators(e.false_end) # {}
            /\ cursor = e.merge_bb

\* C7: after each arm whose callback returned Ok, build_conditional adds a
\* branch to the merge block exactly when the arm left its last block
\* without a terminator, so both arms' final blocks are terminated, and it
\* leaves the builder at the merge block; an arm whose callback returned Err
\* gets no branch and the builder stays where the arm stopped.  Whenever no
\* instruction was emitted behind a terminator (arms that nest conditionals
\* included, operations that failed included, wherever the builder was put)
\* no block holds two terminators and a terminator is the last instruction
\* of its block.
C7_BranchOnlyWhereNeeded ==
    /\ \A i \in LogEntries("build_conditional") :
          LET e == cglog[i]
              branch == [op |-> "br", target |-> e.merge_bb]
              ArmEnd(last, ix, needed) ==
                  LET b == blocks[last]
                  IN  /\ ix \in 1..Len(b)
                      /\ IF needed
                         THEN /\ b[ix] = branch
                              /\ ix > 1 => ~IsTerminator(b[ix - 1])
                         ELSE /\ IsTerminator(b[ix])
                              /\ b[ix] # branch
          IN  /\ ArmEnd(e.true_end, e.true_ix, e.true_needed)
              /\ ArmEnd(e.false_end, e.false_ix, e.false_needed)
    /\ ConditionalReturned => cursor = cglog[Len(cglog)].merge_bb
    /\ \A i \in LogEntries("failed") :
          cglog[i].by = "build_conditional" =>
              /\ \A k \in 1..Len(blocks[cglog[i].end]) :
                    blocks[cglog[i].end][k] # [op |-> "br", target |-> cglog[i].merge_bb]
              /\ (i = Len(cglog) /\ cgres.tag = "Err") => cursor = cglog[i].end
    /\ InOrder =>
          \A b \in 1..Len(blocks) : Terminators(b) \subseteq {Len(blocks[b])}

\* C7 witness: a conditional was built, with no instruction behind a
\* terminator, whose true arm nests a conditional and needed the branch, and
\* whose false arm ended in a trapping return.
C7_Witness ==
    /\ ConditionalReturned
    /\ InOrder
    /\ LET e == cglog[Len(cglog)]
       IN  /\ e.true_needed /\ ~e.false_needed
           /\ e.true_end # e.if_true_bb
           /\ \E j \in LogEntries("build_conditional") : cglog[j].from_bb = e.if_true_bb

\* The function's code is finished: the builder's block ends in a terminator.
Complete == ~needs_terminator(Compiler)

\* The builder was never moved, from outside, out of a block that had no
\* terminator yet.
BuilderKept ==
    \A i \in LogEntries("position_at_end") :
        cglog[i].open => cglog[i].bb = cglog[i].from

-----------------------------------------------------------------------------
(* ArithSpec: the division check and the checked arithmetic, emitted on    *)
(* the function's two integer arguments and on constants, and run on every *)
(* pair of values.                                                         *)

\* The division checks emitted: the operands (the function's arguments or
\* constants) and the error points the callbacks compile (overflow, division
\* by zero).
DivChecks ==
    {[lhs |-> Arg("lhs"), rhs |-> Arg("rhs"), ov |-> 0, dz |-> 1],
     [lhs |-> Arg("lhs"), rhs |-> Arg("rhs"), ov |-> 2, dz |-> 0],
     [lhs |-> Arg("lhs"), rhs |-> const_int(2, TRUE), ov |-> 0, dz |-> 1],
     [lhs |-> Arg("lhs"), rhs |-> const_int(-1, TRUE), ov |-> 2, dz |-> 1],
     [lhs |-> const_int(3, TRUE), rhs |-> Arg("rhs"), ov |-> 1, dz |-> 0],
     [lhs |-> const_int(MinInt, TRUE), rhs |-> Arg("rhs"), ov |-> 0, dz |-> 2],
     [lhs |-> const_int(1, TRUE), rhs |-> const_zero(IntBits), ov |-> 0, dz |-> 1]}

\* The checked operations, each with the error point its callback compiles.
ArithCalls == {[name |-> "sadd", ov |-> 0],
               [name |-> "ssub", ov |-> 1],
               [name |-> "smul", ov |-> 2]}

ArBuildDivCheck ==
    \E p \in DivChecks :
        LET r == build_div_check(Compiler, p.lhs, p.rhs,
                                 <<ErrorPointOp(p.ov)>>, <<ErrorPointOp(p.dz)>>)
        IN  /\ CgCall
            /\ Len(r.c.blocks) <= MaxBlocks
            /\ SetCompiler(r.c)
            /\ cgres' = r.res

ArBuildCheckedIntArithmetic ==
    \E a \in ArithCalls :
        LET r == build_checked_int_arithmetic(Compiler, Arg("lhs"), Arg("rhs"), a.name,
                                              <<ErrorPointOp(a.ov)>>)
        IN  /\ CgCall
            /\ Len(r.c.blocks) <= MaxBlocks
            /\ SetCompiler(r.c)
            /\ cgres' = r.res

\* The caller of build_div_check divides the operands it had checked once
\* the check is emitted, and returns the quotient (of operands that are not
\* both constants: the quotient is then an instruction).
ArReturnQuotient ==
    /\ cgres.tag = "Ok"
    /\ Len(cglog) > 0
    /\ cglog[Len(cglog)].op = "build_div_check"
    /\ ~(cglog[Len(cglog)].lhs.v = "const" /\ cglog[Len(cglog)].rhs.v = "const")
    /\ CgCall
    /\ SetCompiler(build_return_cell_state(
                       Compiler, ZExt64(SDiv(cglog[Len(cglog)].lhs, cglog[Len(cglog)].rhs))))
    /\ cgres' = [tag |-> "Unit"]

\* The caller of build_checked_int_arithmetic returns the value it was given.
ArReturnResult ==
    /\ cgres.tag = "Ok"
    /\ Len(cglog) > 0
    /\ cglog[Len(cglog)].op = "build_checked_int_arithmetic"
    /\ CgCall
    /\ SetCompiler(build_return_cell_state(Compiler, ZExt64(cgres.val)))
    /\ cgres' = [tag |-> "Unit"]

RECURSIVE RunToEnd(_, _)
\* A call run until it returns or stops.
RunToEnd(r, c) == IF r.status # "running" THEN r ELSE RunToEnd(Stepped(r, c), c)

\* The host calls the emitted function, on every pair of integers, once a
\* division check or a checked operation has been emitted; the call runs
\* to its end.
ArExec ==
    \E lhs \in IntPatterns, rhs \in IntPatterns :
        /\ run.status = "idle"
        /\ LogEntries("build_div_check") \cup LogEntries("build_checked_int_arithmetic") # {}
        /\ \A i \in 1..Len(cglog) : cglog[i].op # "failed"
        /\ run' = RunToEnd(Started(lhs, rhs), Compiler)
        /\ UNCHANGED <<blocks, cursor, module, cglog, cgres, CTX, contexts, threads>>
        /\ UNCHANGED ufvars

ArithNext ==
    \/ ArBuildDivCheck
    \/ ArBuildCheckedIntArithmetic
    \/ ArReturnQuotient
    \/ ArReturnResult
    \/ CgGetLlvmIntrinisic
    \/ CgAppendBasicBlock
    \/ CgPositionAtEnd
    \/ CgBuildStore
    \/ ArExec

ArithSpec == CgInit /\ [][ArithNext]_vars

\* The error point a callback compiles.
ErrorPointOf(callback) == callback[1].idx
ErrorReturn(idx) == [is_error |-> TRUE, payload |-> BitsOf(idx)]

\* C4: for every pair of operand values the division check, when a call runs
\* it, sends rhs = 0 to the division-by-zero error point without entering
\* the block of the overflow stage, sends MIN_INT / -1 to the overflow error
\* point, and lets every other pair through the overflow stage to the block
\* after the check without returning from inside the check; the division
\* the caller emits there yields the quotient (rounded toward zero) with the
\* top bit clear.  The operands are the function's arguments or constants.
C4_DivCheck ==
    \A i \in LogEntries("build_div_check") :
        LET e == cglog[i]
            x == ToSigned(Eval(e.lhs, run.args))
            y == ToSigned(Eval(e.rhs, run.args))
            q == ToSigned(NatOf(run.retval))
            inside == (e.first_bb..e.last_bb) \ {e.merge_bb}
        IN  (run.status # "idle" /\ <<e.from_bb, e.ix>> \in run.executed) =>
              /\ y = 0 => e.first_bb + 1 \notin run.visited
              /\ Finished =>
                   CASE y = 0 ->
                          /\ run.status = "returned"
                          /\ Decode(run.retval) = ErrorReturn(ErrorPointOf(e.on_div_by_zero))
                          /\ e.merge_bb \notin run.visited
                     [] y = -1 /\ x = MinInt ->
                          /\ run.status = "returned"
                          /\ Decode(run.retval) = ErrorReturn(ErrorPointOf(e.on_overflow))
                          /\ e.merge_bb \notin run.visited
                     [] OTHER ->
                          /\ e.merge_bb \in run.visited
                          /\ e.first_bb + 1 \in run.visited
                          /\ run.status = "returned" => run.bb \notin inside
                          /\ (/\ run.status = "returned"
                              /\ run.bb = e.merge_bb
                              /\ run.ip = 1
                              /\ blocks[run.bb][1].val = ZExt64(SDiv(e.lhs, e.rhs))) =>
                                /\ ~Decode(run.retval).is_error
                                /\ q \in MinInt..MaxInt
                                /\ (x - q * y) * (IF x < 0 THEN -1 ELSE 1) >= 0
                                /\ (x - q * y) * (IF x < 0 THEN -1 ELSE 1)
                                      < (IF y < 0 THEN -y ELSE y)

\* C4 witness: 3 / 2, with the constant 2 as the denominator, passed both
\* checks and returned 1.
C4_Witness ==
    \E i \in LogEntries("build_div_check") :
        /\ run.status = "returned"
        /\ <<cglog[i].from_bb, cglog[i].ix>> \in run.executed
        /\ run.bb = cglog[i].merge_bb
        /\ cglog[i].lhs = Arg("lhs")
        /\ cglog[i].rhs = const_int(2, TRUE)
        /\ run.args.lhs = 3
        /\ run.retval = {0}

\* The exact result of the named operation on two integers.
Exact(name, x, y) ==
    CASE name = "sadd" -> x + y
      [] name = "ssub" -> x - y
      [] name = "smul" -> x * y

\* C5: for every pair of integers, checked arithmetic that a call runs and
\* whose exact result is outside the signed range returns the encoded
\* overflow error point and never a number; every other pair goes on at the
\* merge block, where the value handed back to the caller is the exact
\* result.
C5_CheckedArithmetic ==
    \A i \in LogEntries("build_checked_int_arithmetic") :
        LET e == cglog[i]
            exact == Exact(e.name, ToSigned(Eval(e.lhs, run.args)),
                           ToSigned(Eval(e.rhs, run.args)))
        IN  (Finished /\ <<e.from_bb, e.ix>> \in run.executed) =>
              IF exact < MinInt \/ exact > MaxInt
              THEN /\ run.status = "returned"
                   /\ Decode(run.retval) = ErrorReturn(ErrorPointOf(e.on_overflow))
                   /\ e.merge_bb \notin run.visited
              ELSE /\ e.merge_bb \in run.visited
                   /\ ToSigned(Eval(e.result, run.args)) = exact
                   /\ (/\ run.status = "returned"
                       /\ run.bb = e.merge_bb
                       /\ run.ip = 1
                       /\ blocks[run.bb][1].val = ZExt64(e.result)) =>
                         /\ ~Decode(run.retval).is_error
                         /\ ToSigned(NatOf(run.retval)) = exact

\* C5 witness: MAX_INT + 1 returned the overflow error point.
C5_Witness ==
    \E i \in LogEntries("build_checked_int_arithmetic") :
        /\ cglog[i].name = "sadd"
        /\ run.status = "returned"
        /\ <<cglog[i].from_bb, cglog[i].ix>> \in run.executed
        /\ run.args = [lhs |-> MaxInt, rhs |-> 1]
        /\ Decode(run.retval) = ErrorReturn(ErrorPointOf(cglog[i].on_overflow))

-----------------------------------------------------------------------------
(* CtxSpec: threads calling get_ctx (compiler/mod.rs:19-24), from the      *)
(* start of the process.  Threads interleave between the steps of get_ctx, *)
(* and a thread that is not inside get_ctx may exit.                       *)

\* Thread t calls get_ctx().
GetCtxCall(t) ==
    /\ threads[t].pc = "idle"
    /\ threads[t].calls < MaxGetCtx
    /\ threads' = [threads EXCEPT ![t].pc = "deref", ![t].calls = @ + 1]
    /\ UNCHANGED <<CTX, contexts>>

GetCtxDeref(t) ==
    /\ threads[t].pc = "deref"
    /\ SetCtx(Deref(CtxState, t))

GetCtxLookup(t) ==
    /\ threads[t].pc = "get_or"
    /\ SetCtx(Lookup(CtxState, t))

GetCtxCreate(t) ==
    /\ threads[t].pc = "create"
    /\ SetCtx(Create(CtxState, t))

GetCtxInsert(t) ==
    /\ threads[t].pc = "insert"
    /\ SetCtx(Insert(CtxState, t))

\* Thread t exits: its id is free again, the context in its slot stays.
ThreadExit(t) ==
    /\ threads[t].pc = "idle"
    /\ threads' = [threads EXCEPT ![t].pc = "exited"]
    /\ UNCHANGED <<CTX, contexts>>

CtxFrame == UNCHANGED <<blocks, cursor, module, cglog, cgres, run>> /\ UNCHANGED ufvars

CtxNext ==
    \/ \E t \in Threads : GetCtxCall(t) /\ CtxFrame
    \/ \E t \in Threads : GetCtxDeref(t) /\ CtxFrame
    \/ \E t \in Threads : GetCtxLookup(t) /\ CtxFrame
    \/ \E t \in Threads : GetCtxCreate(t) /\ CtxFrame
    \/ \E t \in Threads : GetCtxInsert(t) /\ CtxFrame
    \/ \E t \in Threads : ThreadExit(t) /\ CtxFrame

\* Process start: no Compiler yet, and a transition function no node has
\* been built into.
CtxInit ==
    /\ is_transition_function = TRUE
    /\ return_type = "CellState"
    /\ statements = <<>>
    /\ expressions = <<>>
    /\ error_points = <<>>
    /\ variables = <<>>
    /\ call = [op |-> "new"]
    /\ ncalls = 0
    /\ result = [tag |-> "None"]
    /\ CgNone

CtxSpec == CtxInit /\ [][CtxNext]_vars

\* The threads that have been given a context, and those a context was made for.
Served == {t \in Threads : threads[t].got # {}}
Makers == {t \in Threads : threads[t].created # 0}

\* C12: under every interleaving, a thread that has been given the context
\* has been given one and the same context on all its calls; that context
\* was made on the thread's first call (one context for each thread that
\* asked, none before); and no context is ever given to two threads.
C12_OneContextPerThread ==
    /\ \A t \in Threads :
          /\ Cardinality(threads[t].got) <= 1
          /\ threads[t].got \subseteq {threads[t].created}
          /\ threads[t].calls = 0 => threads[t].created = 0
          /\ \A u \in Threads \ {t} : threads[t].got \cap threads[u].got = {}
    /\ Served \subseteq Makers
    /\ contexts = Cardinality(Makers)
    /\ ~CTX.init => contexts = 0

====
